---- MODULE Spec2Model ----
(***************************************************************************)
(* Kairi: automated pull-request review.                                   *)
(*                                                                         *)
(* State machines over one set of variables:                               *)
(*   SpecChunker  - chunkFiles (src/llm/chunker.ts) applied to bounded     *)
(*                  inputs;                                                *)
(*   Spec         - the review gate: feature flags and the pending-review  *)
(*                  queue of src/metrics/pg-store.ts driven by             *)
(*                  orchestrateReview (src/review/orchestrator.ts);        *)
(*   SpecFeedback - posting, interaction storage and the feedback          *)
(*                  recorder (src/learning/feedback.ts);                   *)
(*   SpecFilter   - filterFindings (src/review/filter.ts) applied to       *)
(*                  bounded inputs, and again to rearrangements of them;   *)
(*   SpecRecall   - one review with learning: retrieveLearningContext and  *)
(*                  formatLearningContext (src/learning/recall.ts), the    *)
(*                  store calls they and orchestrateReview make, and the   *)
(*                  interaction writes after posting;                      *)
(*   SpecConcepts - extractConcepts (src/learning/concept-extractor.ts)    *)
(*                  applied to bounded file lists, texts and LLM replies;  *)
(*   SpecToolLoop - the per-chunk tool-use loop of the reviewer, whose     *)
(*                  lookups are executeToolCall (src/llm/tools.ts);        *)
(*   SpecReviewer - reviewWithLLM (src/llm/reviewer.ts): one model call    *)
(*                  per chunk under withRetry, then the cross-file call;   *)
(*   SpecParser   - parsePatch (src/utils/diff-parser.ts) applied to       *)
(*                  bounded patches, line by line and character by         *)
(*                  character;                                             *)
(*   SpecSync     - syncRepoHistory (src/learning/sync.ts) run again and   *)
(*                  again over the same comments, with the writes of the   *)
(*                  vector and graph stores;                               *)
(*   SpecFlags    - the flag routes of the dashboard                       *)
(*                  (src/dashboard/routes.ts) over setFeatureFlag and      *)
(*                  getFeatureFlag;                                        *)
(*   SpecDashboard - the approve and reject routes over                    *)
(*                  resolvePendingReview and postReview;                   *)
(*   SpecWebhook  - deliveries of pull_request webhooks                    *)
(*                  (src/webhook/events.ts) running orchestrateReview on   *)
(*                  one pull request, with dismissPreviousReviews.         *)
(***************************************************************************)
EXTENDS Integers, Sequences, FiniteSets, TLC

VARIABLES
    \* ---- chunker ----
    files,            \* ParsedFile[] handed to chunkFiles
    maxTokenBudget,   \* the budget handed to chunkFiles
    chunks,           \* FileChunk[] returned by chunkFiles
    chunked,          \* TRUE once chunkFiles has returned
    \* ---- review gate (pg-store.ts, orchestrator.ts) ----
    phase,            \* "starting" | "serving" | "exited" (src/index.ts main)
    pool,             \* _pool: "null" | "open"
    dbUp,             \* whether PostgreSQL answers queries
    flags,            \* table feature_flags: the keys present -> enabled
    flagSetByCaller,  \* history: keys a setFeatureFlag call has written
    pending,          \* table pending_reviews; a row's id is its index
    now,              \* the database clock NOW()
    runs,             \* orchestrateReview invocations
    calls,            \* resolvePendingReview invocations
    \* ---- feedback (orchestrator.ts, feedback.ts, vector/graph stores) ----
    learningEnabled,  \* isLearningEnabled(env)
    github,           \* the reviews posted on the pull request, by review
    interactionOf,    \* history: review -> the id its finding is stored under
    vectorStore,      \* Qdrant: interaction id -> approval payload
    graphStore,       \* Neo4j: interaction id -> approved property
    feedbackRows,     \* feedback_metrics: interaction id -> number of rows
    signals,          \* handleReviewFeedback invocations
    \* ---- finding filter (src/review/filter.ts) ----
    filterFindingsIn, \* ReviewFinding[] handed to filterFindings
    filterConfig,     \* config.review: inlineThreshold, maxInlineComments
    filtered,         \* the FilteredFindings returned, or NotFiltered
    refiltered,       \* a second call on a rearrangement of the same findings
    \* ---- recall (src/learning/recall.ts, orchestrator.ts steps 5-16) ----
    knowledge,        \* what Qdrant and Neo4j hold, and _client/_driver set or null
    recallFiles,      \* parsedFiles: the filenames of the pull request
    recallPc,         \* position inside retrieveLearningContext
    semanticResults,  \* searchSimilar(query, repo, 10)
    conceptResults,   \* getRelatedInteractions(concepts, repo, 5)
    fileHistoryResults, \* getFileHistory results of files.slice(0, 3), appended
    learningCtx,      \* the LearningContext returned
    learningPrompt,   \* formatLearningContext(learningCtx)
    reviewPc,         \* position of orchestrateReview
    reviewError,      \* what made orchestrateReview throw, or "none"
    storeWrites,      \* the interaction writes issued after posting
    \* ---- concept extraction (src/learning/concept-extractor.ts) ----
    conceptFiles,     \* ParsedFile[] handed to extractConcepts, by filename
    conceptText,      \* reviewComment handed to extractConcepts
    conceptReply,     \* what the LLM call inside extractWithLLM comes to
    conceptsOut,      \* the tags returned, or NoConcepts
    \* ---- tool-use loop (src/llm/tools.ts, config.llm) ----
    loopInput,        \* the chunks of the review, the budget, the prompt size
    toolLoop,         \* the loop of the chunk under review
    loopOutcomes,     \* the states the loops of the chunks before it ended in
    \* ---- two-phase reviewer (src/llm/reviewer.ts, src/utils/retry.ts) ----
    llmInput,         \* the chunks chunkFiles returned, and whether phase 2 can send
    llmPc,            \* position of reviewWithLLM: the call awaited and its attempts
    llmDone,          \* history: per chunk reviewed, its attempts and last outcome
    llmAnalyses,      \* analyses: FileAnalysis[] of runFileAnalysis
    llmReturn,        \* what reviewWithLLM returned, or that it threw
    \* ---- diff parser (src/utils/diff-parser.ts) ----
    patchIn,          \* the patch and status handed to parsePatch
    parsedOut,        \* the ParsedFile returned, or NotParsed
    \* ---- backfill (src/learning/sync.ts, vector-store.ts, graph-store.ts) ----
    syncInput,        \* the comments GitHub lists for the pull request
    syncStore,        \* _client and _driver set or null, Qdrant's points, Neo4j's nodes
    syncPc,           \* _progress.status and the position of syncRepoHistory
    \* ---- dashboard routes and webhook deliveries ----
    flagLog,          \* history: the last value set per flag, and the last read
    heldPosts,        \* per approve or reject request, what became of postReview
    deliveries,       \* handlePullRequest invocations on one pull request
    prReviews,        \* the reviews GitHub holds for the pull request
    \* ---- finding dedup (orchestrator.ts) and the comment guard (events.ts) ----
    dedupIn,          \* ruleComments and llmComments handed to deduplicateFindings
    dedupOut,         \* the findings returned, or NotDeduped
    recentlyProcessed, \* the Set of comment ids seen in the last DEDUP_TTL_MS
    dedupTimers,      \* the pending setTimeout callbacks: the id to delete, and when
    clock,            \* Date.now(), in units of thirty seconds
    commentLog,       \* history: the deliveries that reached isDuplicate
    \* ---- one chunk's reply (src/llm/reviewer.ts reviewFileChunk) ----
    chunkReply,       \* the files sent in the chunk and the parsed response
    chunkFindings,    \* the FileAnalysis[] returned, or NotAnalysed
    \* ---- one lookup (src/llm/tools.ts executeToolCall) ----
    toolCall,         \* the name and input of the call, and what the lookup comes to
    toolReturn,       \* what executeToolCall returned or threw, or NotCalled
    \* ---- POST /api/sync and syncRepoHistory (src/learning/sync.ts) ----
    progress,         \* _progress
    syncCall          \* per request: its response and where its syncRepoHistory stands

chunkerVars == <<files, maxTokenBudget, chunks, chunked>>

gateVars == <<phase, pool, dbUp, flags, flagSetByCaller, pending, now, runs, calls>>

feedbackVars == <<learningEnabled, github, interactionOf, vectorStore, graphStore,
                  feedbackRows, signals>>

filterVars == <<filterFindingsIn, filterConfig, filtered, refiltered>>

recallVars == <<knowledge, recallFiles, recallPc, semanticResults, conceptResults,
                fileHistoryResults, learningCtx, learningPrompt, reviewPc,
                reviewError, storeWrites>>

conceptVars == <<conceptFiles, conceptText, conceptReply, conceptsOut>>

toolVars == <<loopInput, toolLoop, loopOutcomes>>

reviewerVars == <<llmInput, llmPc, llmDone, llmAnalyses, llmReturn>>

\* the machines added last
parserVars == <<patchIn, parsedOut>>

syncVars == <<syncInput, syncStore, syncPc>>

hookVars == <<flagLog, heldPosts, deliveries, prReviews>>

dedupVars == <<dedupIn, dedupOut>>

guardVars == <<recentlyProcessed, dedupTimers, clock, commentLog>>

replyVars == <<chunkReply, chunkFindings>>

callVars == <<toolCall, toolReturn>>

flightVars == <<progress, syncCall>>

lastVars == <<dedupVars, guardVars, replyVars, callVars, flightVars>>

laterVars == <<reviewerVars, parserVars, syncVars, hookVars, lastVars>>

\* the machines added after the first three
moreVars == <<filterVars, recallVars, conceptVars, toolVars, laterVars>>

vars == <<files, maxTokenBudget, chunks, chunked,
          phase, pool, dbUp, flags, flagSetByCaller, pending, now, runs, calls,
          learningEnabled, github, interactionOf, vectorStore, graphStore,
          feedbackRows, signals, moreVars>>

\* what the actions of one machine leave alone
notChunkerVars == <<gateVars, feedbackVars, moreVars>>
notGateVars == <<chunkerVars, feedbackVars, moreVars>>
notFeedbackVars == <<chunkerVars, gateVars, moreVars>>
firstVars == <<chunkerVars, gateVars, feedbackVars>>
notFilterVars == <<firstVars, recallVars, conceptVars, toolVars, laterVars>>
notRecallVars == <<firstVars, filterVars, conceptVars, toolVars, laterVars>>
notConceptVars == <<firstVars, filterVars, recallVars, toolVars, laterVars>>
notToolVars == <<firstVars, filterVars, recallVars, conceptVars, laterVars>>
earlierVars == <<firstVars, filterVars, recallVars, conceptVars, toolVars>>
notReviewerVars == <<earlierVars, parserVars, syncVars, hookVars, lastVars>>
notParserVars == <<earlierVars, reviewerVars, syncVars, hookVars, lastVars>>
notSyncVars == <<earlierVars, reviewerVars, parserVars, hookVars, lastVars>>
beforeLastVars == <<earlierVars, reviewerVars, parserVars, syncVars, hookVars>>
notDedupVars == <<beforeLastVars, guardVars, replyVars, callVars, flightVars>>
notGuardVars == <<beforeLastVars, dedupVars, replyVars, callVars, flightVars>>
notReplyVars == <<beforeLastVars, dedupVars, guardVars, callVars, flightVars>>
notCallVars == <<beforeLastVars, dedupVars, guardVars, replyVars, flightVars>>
notFlightVars == <<beforeLastVars, dedupVars, guardVars, replyVars, callVars>>
\* what the routes and the deliveries leave alone, the gate aside
notGateHookVars == <<chunkerVars, feedbackVars, filterVars, recallVars, conceptVars,
                     toolVars, reviewerVars, parserVars, syncVars, lastVars>>

(***************************************************************************)
(* Bounds of the chunker inputs.                                           *)
(***************************************************************************)
MaxFiles == 2
MaxBudget == 40

(***************************************************************************)
(* Bounds of the review gate: concurrent orchestrateReview runs, rows of    *)
(* the pending-review queue and concurrent resolvePendingReview calls.     *)
(***************************************************************************)
MaxRuns == 2
MaxRows == 1
MaxCalls == 3

(***************************************************************************)
(* Bounds of the feedback machine: posted reviews (one finding each) and   *)
(* feedback webhooks.                                                      *)
(***************************************************************************)
MaxReviews == 1
MaxSignals == 2

(***************************************************************************)
(* Generic helpers.                                                        *)
(***************************************************************************)
CeilDiv(a, b) == (a + b - 1) \div b

RECURSIVE SumSeq(_)
SumSeq(s) == IF s = <<>> THEN 0 ELSE Head(s) + SumSeq(Tail(s))

RECURSIVE Flatten(_)
Flatten(ss) == IF ss = <<>> THEN <<>> ELSE Head(ss) \o Flatten(Tail(ss))

Range(s) == {s[i] : i \in DOMAIN s}

CountOfType(s, type) == Cardinality({i \in DOMAIN s : s[i].type = type})

(***************************************************************************)
(* src/llm/chunker.ts                                                      *)
(*                                                                         *)
(* A filename is the sequence of its "."-separated segments                *)
(* (filename.split(".")), so "src/main.test.ts" is                         *)
(* <<"src/main", "test", "ts">>.  A line is [type, content].               *)
(***************************************************************************)
CHARS_PER_TOKEN == 4

\* filename.length: the segments plus the dots between them
FilenameLength(filename) ==
    SumSeq([i \in DOMAIN filename |-> Len(filename[i])]) + (Len(filename) - 1)

\* FILE_PRIORITY[ext] ?? 3, ext being "." + the last segment.  The keys
\* ".test.ts", ".spec.ts", ".test.js", ".spec.js" of the table hold two dots
\* and can never equal "." + a segment, so they are unreachable here too.
FILE_PRIORITY(ext) ==
    CASE ext \in {"ts", "tsx", "js", "jsx", "py", "go", "rs", "java",
                  "rb", "kt", "swift", "cs"} -> 10
      [] ext \in {"json", "yml", "yaml", "toml", "env", "ini"} -> 5
      [] ext \in {"md", "txt", "rst"} -> 2
      [] OTHER -> 3

\* Variant without the test-file pattern: extension lookup only
getFilePriorityIgnoringTests(filename) == FILE_PRIORITY(filename[Len(filename)])

\* getFilePriority: *.test.* and *.spec.* files rank 4, the rest by extension
getFilePriority(filename) ==
    LET n == Len(filename) IN
    IF /\ n >= 3
       /\ filename[n - 1] \in {"test", "spec"}
       /\ filename[n] \in {"ts", "js", "tsx", "jsx"}
    THEN 4
    ELSE FILE_PRIORITY(filename[n])

AllLines(file) == Flatten([h \in DOMAIN file.hunks |-> file.hunks[h].lines])

estimateFileTokens(file) ==
    LET lines == AllLines(file)
        chars == FilenameLength(file.filename) + 20
                 + SumSeq([i \in DOMAIN lines |-> Len(lines[i].content) + 5])
    IN  CeilDiv(chars, CHARS_PER_TOKEN)

lineTokens(line) == CeilDiv(Len(line.content) + 5, CHARS_PER_TOKEN)

\* The inner loop of truncateFile over one hunk: the lines kept and their
\* token sum, given the tokens already spent on earlier hunks.
RECURSIVE TruncateHunkLines(_, _, _, _, _)
TruncateHunkLines(lines, i, tokens, hunkTokens, maxTokens) ==
    IF i > Len(lines)
    THEN [lines |-> lines, hunkTokens |-> hunkTokens]
    ELSE IF tokens + hunkTokens + lineTokens(lines[i]) > maxTokens
         THEN [lines |-> SubSeq(lines, 1, i - 1), hunkTokens |-> hunkTokens]
         ELSE TruncateHunkLines(lines, i + 1, tokens,
                                hunkTokens + lineTokens(lines[i]), maxTokens)

\* The outer loop of truncateFile, from hunk h on.
RECURSIVE TruncateHunks(_, _, _, _)
TruncateHunks(file, h, acc, maxTokens) ==
    IF h > Len(file.hunks)
    THEN acc
    ELSE LET kept == TruncateHunkLines(file.hunks[h].lines, 1, acc.tokens, 0, maxTokens)
             pushed == Len(kept.lines) > 0
             next ==
                 IF pushed
                 THEN [hunks |-> Append(acc.hunks, [file.hunks[h] EXCEPT !.lines = kept.lines]),
                       additions |-> acc.additions
                           + CountOfType(kept.lines, "add"),
                       deletions |-> acc.deletions
                           + CountOfType(kept.lines, "del"),
                       tokens |-> acc.tokens + kept.hunkTokens]
                 ELSE acc
         IN  IF next.tokens >= maxTokens
             THEN next
             ELSE TruncateHunks(file, h + 1, next, maxTokens)

truncateFile(file, maxTokens) ==
    LET start == [hunks |-> <<>>, additions |-> 0, deletions |-> 0,
                  tokens |-> CeilDiv(FilenameLength(file.filename), CHARS_PER_TOKEN) + 20]
        done == TruncateHunks(file, 1, start, maxTokens)
    IN  [file EXCEPT !.hunks = done.hunks,
                     !.additions = done.additions,
                     !.deletions = done.deletions]

\* Variant comparator that ignores priority
CompareBySizeOnly(a, b) == estimateFileTokens(a) - estimateFileTokens(b)

\* The comparator handed to files.sort
CompareFiles(a, b) ==
    LET pa == getFilePriority(a.filename)
        pb == getFilePriority(b.filename)
    IN  IF pa # pb THEN pb - pa
        ELSE estimateFileTokens(a) - estimateFileTokens(b)

\* Array.prototype.sort is stable: f goes behind every element that does not
\* sort after it.
RECURSIVE InsertSorted(_, _)
InsertSorted(sorted, f) ==
    IF sorted = <<>> THEN <<f>>
    ELSE IF CompareFiles(Head(sorted), f) <= 0
         THEN <<Head(sorted)>> \o InsertSorted(Tail(sorted), f)
         ELSE <<f>> \o sorted

RECURSIVE SortFiles(_, _)
SortFiles(input, sorted) ==
    IF input = <<>> THEN sorted
    ELSE SortFiles(Tail(input), InsertSorted(sorted, Head(input)))

EmptyChunk == [files |-> <<>>, estimatedTokens |-> 0]

\* Variant threshold at the whole budget
ExceedsBudgetItself(tokens, budget) == tokens > budget

\* tokens > maxTokenBudget * 0.8
ExceedsSoloThreshold(tokens, budget) == tokens * 10 > budget * 8

\* Math.floor(maxTokenBudget * 0.7); exact for every budget below 90, where
\* the double product first rounds under the integer
TruncateTarget(budget) == (budget * 7) \div 10

\* Variant that keeps filling the current chunk
NeverStartsNewChunk(current, tokens, budget) == FALSE

\* current.estimatedTokens + tokens > maxTokenBudget
StartsNewChunk(current, tokens, budget) ==
    current.estimatedTokens + tokens > budget

\* Variant that discards the current chunk instead of pushing it
DropCurrent(chunkList, current) == chunkList

\* if (current.files.length > 0) chunks.push(current)
FlushCurrent(chunkList, current) ==
    IF Len(current.files) > 0 THEN Append(chunkList, current) ELSE chunkList

\* One iteration of the for loop of chunkFiles
ChunkOneFile(st, file, budget) ==
    LET tokens == estimateFileTokens(file) IN
    IF ExceedsSoloThreshold(tokens, budget)
    THEN LET truncated == truncateFile(file, TruncateTarget(budget)) IN
         [chunks |-> Append(FlushCurrent(st.chunks, st.current),
                            [files |-> <<truncated>>,
                             estimatedTokens |-> estimateFileTokens(truncated)]),
          current |-> EmptyChunk]
    ELSE IF StartsNewChunk(st.current, tokens, budget)
         THEN [chunks |-> FlushCurrent(st.chunks, st.current),
               current |-> [files |-> <<file>>, estimatedTokens |-> tokens]]
         ELSE [chunks |-> st.chunks,
               current |-> [files |-> Append(st.current.files, file),
                            estimatedTokens |-> st.current.estimatedTokens + tokens]]

RECURSIVE ChunkLoop(_, _, _)
ChunkLoop(sorted, st, budget) ==
    IF sorted = <<>> THEN st
    ELSE ChunkLoop(Tail(sorted), ChunkOneFile(st, Head(sorted), budget), budget)

chunkFiles(input, budget) ==
    LET sorted == SortFiles(input, <<>>)
        st == ChunkLoop(sorted, [chunks |-> <<>>, current |-> EmptyChunk], budget)
    IN  FlushCurrent(st.chunks, st.current)

(***************************************************************************)
(* src/metrics/pg-store.ts: feature flags and the pending-review queue     *)
(***************************************************************************)
FlagKeys == {"review_gate", "sync_enabled"}

\* webhook deliveries for one pull request
MaxDeliveries == 2

RunIds == 1..MaxRuns
DeliveryIds == 1..MaxDeliveries
RowIds == 1..MaxRows
CallIds == 1..MaxCalls
Resolutions == {"approved", "rejected"}

\* INSERT INTO feature_flags ... ON CONFLICT (key) DO NOTHING
InsertFlagIfAbsent(table, key, enabled) ==
    IF key \in DOMAIN table THEN table
    ELSE [k \in DOMAIN table \cup {key} |-> IF k = key THEN enabled ELSE table[k]]

\* INSERT INTO feature_flags ... ON CONFLICT (key) DO UPDATE SET enabled = $2
UpsertFlag(table, key, enabled) ==
    [k \in DOMAIN table \cup {key} |-> IF k = key THEN enabled ELSE table[k]]

NoFlags == [k \in {} |-> FALSE]

\* The rows initMetricsDb seeds into feature_flags
SeedFlags(table) ==
    InsertFlagIfAbsent(InsertFlagIfAbsent(table, "sync_enabled", FALSE),
                       "review_gate", TRUE)

\* getFeatureFlag(key): the value returned and how the read went
getFeatureFlag(key) ==
    IF pool = "null" THEN [value |-> FALSE, read |-> "nopool"]
    ELSE IF ~dbUp THEN [value |-> FALSE, read |-> "failed"]
    ELSE IF key \notin DOMAIN flags THEN [value |-> FALSE, read |-> "ok"]
    ELSE [value |-> flags[key], read |-> "ok"]

\* Variant WHERE clause without the status condition
ResolveMatchesAnyStatus(table, id) == id \in DOMAIN table

\* WHERE id = $2 AND status = 'pending' of resolvePendingReview
ResolveMatches(table, id) ==
    id \in DOMAIN table /\ table[id].status = "pending"

\* Variant in which the gate branch is never taken
GateNeverHolds(gated) == FALSE

\* if (gated) { insertPendingReview; return } of orchestrateReview
HeldByGate(gated) == gated

NoRun == [pc |-> "idle", learning |-> FALSE, gated |-> FALSE, flagRead |-> "none",
          heldAs |-> "none",
          postInvoked |-> FALSE, posted |-> FALSE,
          metrics |-> FALSE, stored |-> FALSE]

NoCall == [pc |-> "idle", id |-> 0, resolution |-> "none", result |-> "none",
           rowExisted |-> FALSE, status |-> "none", at |-> 0]

InitGate ==
    /\ phase = "starting"
    /\ pool = "null"
    /\ dbUp \in BOOLEAN
    /\ flags = NoFlags
    /\ flagSetByCaller = {}
    /\ pending = <<>>
    /\ now = 1
    /\ runs = [r \in RunIds |-> NoRun]
    /\ calls = [c \in CallIds |-> NoCall]

\* PostgreSQL becomes unreachable, or reachable again
DbGoesDown ==
    /\ dbUp
    /\ dbUp' = FALSE
    /\ UNCHANGED <<phase, pool, flags, flagSetByCaller, pending, now, runs, calls>>
    /\ UNCHANGED notGateVars

DbComesUp ==
    /\ ~dbUp
    /\ dbUp' = TRUE
    /\ UNCHANGED <<phase, pool, flags, flagSetByCaller, pending, now, runs, calls>>
    /\ UNCHANGED notGateVars

\* main() of src/index.ts awaiting initMetricsDb(): without POSTGRES_URL the
\* pool stays null; with it the tables are created and the flags seeded, and
\* a failed connect is a fatal startup error (process.exit(1)).
InitMetricsDb(hasConnStr) ==
    /\ phase = "starting"
    /\ IF ~hasConnStr
       THEN /\ phase' = "serving"
            /\ UNCHANGED <<pool, flags>>
       ELSE IF dbUp
            THEN /\ phase' = "serving"
                 /\ pool' = "open"
                 /\ flags' = SeedFlags(flags)
            ELSE /\ phase' = "exited"
                 /\ pool' = "open"
                 /\ UNCHANGED flags
    /\ UNCHANGED <<dbUp, flagSetByCaller, pending, now, runs, calls>>
    /\ UNCHANGED notGateVars

\* setFeatureFlag(key, enabled)
SetFeatureFlag(key, enabled) ==
    /\ phase = "serving"
    /\ IF pool = "open" /\ dbUp
       THEN /\ flags' = UpsertFlag(flags, key, enabled)
            /\ flagSetByCaller' = flagSetByCaller \cup {key}
       ELSE UNCHANGED <<flags, flagSetByCaller>>
    /\ UNCHANGED <<phase, pool, dbUp, pending, now, runs, calls>>
    /\ UNCHANGED notGateVars

(***************************************************************************)
(* src/review/orchestrator.ts: orchestrateReview, one step per await that  *)
(* matters to the gate.                                                    *)
(***************************************************************************)
\* Steps 1-12: config, files, rules, LLM, filter, body.  A disabled repo or
\* a pull request without reviewable files returns before any result.
BuildReview(r, producesResult, learning) ==
    /\ phase = "serving"
    /\ runs[r].pc = "idle"
    /\ \A q \in RunIds : q < r => runs[q].pc # "idle"
    /\ runs' = [runs EXCEPT ![r].pc = IF producesResult THEN "built" ELSE "skipped",
                            ![r].learning = learning]
    /\ UNCHANGED <<phase, pool, dbUp, flags, flagSetByCaller, pending, now, calls>>
    /\ UNCHANGED notGateVars

\* Step 13: const gated = await getFeatureFlag("review_gate")
CheckGate(r) ==
    /\ runs[r].pc = "built"
    /\ LET got == getFeatureFlag("review_gate") IN
       runs' = [runs EXCEPT ![r].pc = "gateChecked",
                            ![r].gated = got.value,
                            ![r].flagRead = got.read]
    /\ UNCHANGED <<phase, pool, dbUp, flags, flagSetByCaller, pending, now, calls>>
    /\ UNCHANGED notGateVars

\* Step 13, gate on: await insertPendingReview(...); return.  The insert
\* throws without a pool or when the query fails, and the run fails with it.
HoldReview(r) ==
    /\ runs[r].pc = "gateChecked"
    /\ HeldByGate(runs[r].gated)
    /\ IF pool = "open" /\ dbUp
       THEN /\ pending' = Append(pending, [run |-> r, status |-> "pending",
                                           created_at |-> now, resolved_at |-> 0])
            /\ now' = now + 1
            /\ runs' = [runs EXCEPT ![r].pc = "done", ![r].heldAs = "pending"]
       ELSE /\ runs' = [runs EXCEPT ![r].pc = "failed"]
            /\ UNCHANGED <<pending, now>>
    /\ UNCHANGED <<phase, pool, dbUp, flags, flagSetByCaller, calls>>
    /\ UNCHANGED notGateVars

\* Step 14: const reviewId = await postReview(octokit, ctx, result)
PostReview(r, githubOk) ==
    /\ runs[r].pc = "gateChecked"
    /\ ~HeldByGate(runs[r].gated)
    /\ runs' = [runs EXCEPT ![r].pc = IF githubOk THEN "posted" ELSE "failed",
                            ![r].postInvoked = TRUE,
                            ![r].posted = githubOk]
    /\ UNCHANGED <<phase, pool, dbUp, flags, flagSetByCaller, pending, now, calls>>
    /\ UNCHANGED notGateVars

\* Steps 15-16: collectReviewMetrics(...), then storeReviewInteractions when
\* learning is enabled
FinishReview(r) ==
    /\ runs[r].pc = "posted"
    /\ runs' = [runs EXCEPT ![r].pc = "done",
                            ![r].metrics = TRUE,
                            ![r].stored = runs[r].learning]
    /\ UNCHANGED <<phase, pool, dbUp, flags, flagSetByCaller, pending, now, calls>>
    /\ UNCHANGED notGateVars

(***************************************************************************)
(* resolvePendingReview(id, resolution): the call, then the UPDATE, which  *)
(* PostgreSQL runs atomically.                                             *)
(***************************************************************************)
ResolveCall(c, id, resolution) ==
    /\ phase = "serving"
    /\ calls[c].pc = "idle"
    /\ \A d \in CallIds : d < c => calls[d].pc # "idle"
    /\ calls' = [calls EXCEPT ![c] =
                    IF pool = "null"
                    THEN [NoCall EXCEPT !.pc = "returned", !.id = id,
                                        !.resolution = resolution, !.result = "null"]
                    ELSE [NoCall EXCEPT !.pc = "sent", !.id = id,
                                        !.resolution = resolution]]
    /\ UNCHANGED <<phase, pool, dbUp, flags, flagSetByCaller, pending, now, runs>>
    /\ UNCHANGED notGateVars

ResolveUpdate(c) ==
    /\ calls[c].pc = "sent"
    /\ LET id == calls[c].id IN
       IF ~dbUp
       THEN /\ calls' = [calls EXCEPT ![c].pc = "threw"]
            /\ UNCHANGED <<pending, now>>
       ELSE IF ResolveMatches(pending, id)
            THEN /\ pending' = [pending EXCEPT ![id].status = calls[c].resolution,
                                               ![id].resolved_at = now]
                 /\ now' = now + 1
                 /\ calls' = [calls EXCEPT ![c].pc = "returned",
                                           ![c].result = "row",
                                           ![c].rowExisted = TRUE,
                                           ![c].status = calls[c].resolution,
                                           ![c].at = now]
            ELSE /\ calls' = [calls EXCEPT ![c].pc = "returned",
                                           ![c].result = "null",
                                           ![c].rowExisted = id \in DOMAIN pending]
                 /\ UNCHANGED <<pending, now>>
    /\ UNCHANGED <<phase, pool, dbUp, flags, flagSetByCaller, runs>>
    /\ UNCHANGED notGateVars

(***************************************************************************)
(* The pending-review queue on its own: rows inserted by                   *)
(* insertPendingReview, resolved by concurrent resolvePendingReview calls, *)
(* in a process whose initMetricsDb has returned.                          *)
(***************************************************************************)
\* insertPendingReview(...): throws without a pool or when the query fails
InsertPendingReview ==
    /\ phase = "serving"
    /\ Len(pending) < MaxRows
    /\ pool = "open" /\ dbUp
    /\ pending' = Append(pending, [run |-> 0, status |-> "pending",
                                   created_at |-> now, resolved_at |-> 0])
    /\ now' = now + 1
    /\ UNCHANGED <<phase, pool, dbUp, flags, flagSetByCaller, runs, calls>>
    /\ UNCHANGED notGateVars

(***************************************************************************)
(* Posting and feedback: src/review/inline-formatter.ts, body-builder.ts,  *)
(* orchestrator.ts (storeReviewInteractions), src/learning/feedback.ts and *)
(* the updateApproval of the vector and graph stores.                      *)
(*                                                                         *)
(* A comment or review body is the sequence of its parts; a part is plain  *)
(* text, the marker <!-- kairi-review -->, or a marker <!-- kairi-id:X --> *)
(***************************************************************************)
ReviewIds == 1..MaxReviews
InteractionIds == 1..MaxReviews
SignalIds == 1..MaxSignals

TextPart(t) == [kind |-> "text", text |-> t, id |-> 0]
KAIRI_TAG == [kind |-> "kairi-review", text |-> "", id |-> 0]
KairiIdPart(id) == [kind |-> "kairi-id", text |-> "", id |-> id]

\* The finding of review k; the first carries a suggested fix, the others
\* a graph context
FindingOf(k) ==
    [path |-> "src/app.ts", line |-> k, body |-> "finding",
     suggestedFix |-> k = 1, graphContext |-> k # 1]

\* formatInlineComment(finding): header, blank, body, suggestion block,
\* graph context
formatInlineComment(finding) ==
    <<TextPart("header"), TextPart(""), TextPart(finding.body)>>
    \o (IF finding.suggestedFix
        THEN <<TextPart(""), TextPart("suggestion"), TextPart("fix"), TextPart("end")>>
        ELSE <<>>)
    \o (IF finding.graphContext
        THEN <<TextPart(""), TextPart("> context")>>
        ELSE <<>>)

\* buildReviewBody(options): the tag, the title, the findings, the footer
buildReviewBody(findings) ==
    <<KAIRI_TAG, TextPart("## Kairi Review")>>
    \o [i \in 1..Len(findings) |-> TextPart(findings[i].body)]
    \o <<TextPart("---"), TextPart("stats")>>

\* body.includes(KAIRI_TAG)
IncludesKairiTag(body) == \E i \in DOMAIN body : body[i] = KAIRI_TAG

\* body.match(INTERACTION_ID_PATTERN): the id of the first marker, 0 for no
\* match
MatchInteractionId(body) ==
    LET at == {i \in DOMAIN body : body[i].kind = "kairi-id"} IN
    IF at = {} THEN 0
    ELSE body[CHOOSE i \in at : \A j \in at : i <= j].id

NoSignal == [pc |-> "idle", id |-> 0, positive |-> FALSE, feedbackType |-> "none",
             vectorDone |-> FALSE, graphDone |-> FALSE]

NoReview == [posted |-> FALSE, body |-> <<>>, comments |-> <<>>]

\* Steps 10-14 of orchestrateReview with the gate off: the body is built,
\* the inline findings are formatted, and postReview creates the review
\* with its inline comments.
PostReviewWithFinding(k, inline) ==
    /\ ~github[k].posted
    /\ \A j \in ReviewIds : j < k => github[j].posted
    /\ LET finding == FindingOf(k)
           formattedInline ==
               IF inline THEN <<[finding EXCEPT !.body = formatInlineComment(finding)]>>
               ELSE <<>>
       IN  github' = [github EXCEPT ![k] =
               [posted |-> TRUE,
                body |-> buildReviewBody(<<finding>>),
                comments |-> [i \in 1..Len(formattedInline) |-> formattedInline[i].body]]]
    /\ UNCHANGED <<learningEnabled, interactionOf, vectorStore, graphStore,
                   feedbackRows, signals>>
    /\ UNCHANGED notFeedbackVars

\* Step 16: storeReviewInteractions after the post: a fresh randomUUID per
\* finding, approved: null, written to both stores without waiting; either
\* write may fail and is then dropped.
StoreReviewInteractions(k, vectorOk, graphOk) ==
    /\ learningEnabled
    /\ github[k].posted
    /\ interactionOf[k] = 0
    /\ LET interactionId ==
               CHOOSE i \in InteractionIds :
                   /\ \A j \in ReviewIds : interactionOf[j] # i
                   /\ \A i2 \in InteractionIds :
                         (\A j \in ReviewIds : interactionOf[j] # i2) => i <= i2
       IN  /\ interactionOf' = [interactionOf EXCEPT ![k] = interactionId]
           /\ vectorStore' = IF vectorOk
                             THEN [vectorStore EXCEPT ![interactionId] = "null"]
                             ELSE vectorStore
           /\ graphStore' = IF graphOk
                            THEN [graphStore EXCEPT ![interactionId] = "null"]
                            ELSE graphStore
    /\ UNCHANGED <<learningEnabled, github, feedbackRows, signals>>
    /\ UNCHANGED notFeedbackVars

\* The bodies a feedback webhook can carry: those of the posted reviews and
\* comments, and any other body of the pull request, with or without markers
PostedReviewBodies == {github[k].body : k \in {j \in ReviewIds : github[j].posted}}
PostedCommentBodies ==
    UNION {Range(github[k].comments) : k \in {j \in ReviewIds : github[j].posted}}
OtherBodies ==
    {<<TextPart("human")>>}
    \cup {<<TextPart("text"), KairiIdPart(i)>> : i \in InteractionIds}
    \cup {<<KAIRI_TAG, KairiIdPart(i)>> : i \in InteractionIds}

FeedbackEvents ==
    [kind : {"review"}, action : {"dismissed", "submitted"},
     body : PostedReviewBodies \cup OtherBodies]
    \cup
    [kind : {"comment"}, action : {"resolved", "deleted", "edited"},
     body : PostedCommentBodies \cup OtherBodies]

\* handleReviewFeedback(event) up to its call of recordFeedback: the
\* arguments of that call, or "none"
FeedbackCallOf(event) ==
    IF ~learningEnabled THEN [call |-> FALSE]
    ELSE IF event.kind = "review" /\ event.action = "dismissed"
    THEN IF ~IncludesKairiTag(event.body) \/ MatchInteractionId(event.body) = 0
         THEN [call |-> FALSE]
         ELSE [call |-> TRUE, id |-> MatchInteractionId(event.body),
               positive |-> FALSE, feedbackType |-> "dismissed"]
    ELSE IF event.kind = "review"
    THEN [call |-> FALSE]
    ELSE IF MatchInteractionId(event.body) = 0
    THEN [call |-> FALSE]
    ELSE IF event.action = "resolved"
    THEN [call |-> TRUE, id |-> MatchInteractionId(event.body),
          positive |-> TRUE, feedbackType |-> "resolved"]
    ELSE IF event.action = "deleted"
    THEN [call |-> TRUE, id |-> MatchInteractionId(event.body),
          positive |-> FALSE, feedbackType |-> "dismissed"]
    ELSE [call |-> FALSE]

HandleReviewFeedback(s, event) ==
    /\ signals[s].pc = "idle"
    /\ \A t \in SignalIds : t < s => signals[t].pc # "idle"
    /\ LET fc == FeedbackCallOf(event) IN
       signals' = [signals EXCEPT ![s] =
           IF fc.call
           THEN [NoSignal EXCEPT !.pc = "recording", !.id = fc.id,
                                 !.positive = fc.positive,
                                 !.feedbackType = fc.feedbackType]
           ELSE [NoSignal EXCEPT !.pc = "ignored"]]
    /\ UNCHANGED <<learningEnabled, github, interactionOf, vectorStore, graphStore,
                   feedbackRows>>
    /\ UNCHANGED notFeedbackVars

ApprovalOf(positive) == IF positive THEN "true" ELSE "false"

\* updateApproval of the vector store: setPayload({approved}) on the point
SetApproval(store, id, approved) ==
    IF store[id] = "absent" THEN store ELSE [store EXCEPT ![id] = approved]

\* recordFeedback, first half: the two updateApproval calls of Promise.all,
\* in either order; a failing or unconfigured store is logged and skipped
VectorUpdateApproval(s, storeOk) ==
    /\ signals[s].pc = "recording"
    /\ ~signals[s].vectorDone
    /\ vectorStore' = IF storeOk
                      THEN SetApproval(vectorStore, signals[s].id,
                                       ApprovalOf(signals[s].positive))
                      ELSE vectorStore
    /\ signals' = [signals EXCEPT ![s].vectorDone = TRUE]
    /\ UNCHANGED <<learningEnabled, github, interactionOf, graphStore, feedbackRows>>
    /\ UNCHANGED notFeedbackVars

GraphUpdateApproval(s, storeOk) ==
    /\ signals[s].pc = "recording"
    /\ ~signals[s].graphDone
    /\ graphStore' = IF storeOk
                     THEN SetApproval(graphStore, signals[s].id,
                                      ApprovalOf(signals[s].positive))
                     ELSE graphStore
    /\ signals' = [signals EXCEPT ![s].graphDone = TRUE]
    /\ UNCHANGED <<learningEnabled, github, interactionOf, vectorStore, feedbackRows>>
    /\ UNCHANGED notFeedbackVars

\* recordFeedback, second half: collectFeedbackMetrics appends one row to
\* feedback_metrics (dropped when the insert fails)
CollectFeedbackMetrics(s, insertOk) ==
    /\ signals[s].pc = "recording"
    /\ signals[s].vectorDone /\ signals[s].graphDone
    /\ feedbackRows' = IF insertOk
                       THEN [feedbackRows EXCEPT ![signals[s].id] = @ + 1]
                       ELSE feedbackRows
    /\ signals' = [signals EXCEPT ![s].pc = "recorded"]
    /\ UNCHANGED <<learningEnabled, github, interactionOf, vectorStore, graphStore>>
    /\ UNCHANGED notFeedbackVars

(***************************************************************************)
(* Chunker inputs: files as parsePatch produces them, with distinct        *)
(* filenames as in one pull request.                                       *)
(***************************************************************************)
ShortContent == "x = 1;"
LongContent == "const veryLongIdentifierName = someFunction(argumentNumber1);"

AddLine(c) == [type |-> "add", content |-> c]
DelLine(c) == [type |-> "del", content |-> c]
CtxLine(c) == [type |-> "context", content |-> c]

Hunk(lines) == [header |-> "@@", lines |-> lines]

HunkShapes ==
    { <<>>,
      << Hunk(<<>>) >>,
      << Hunk(<<AddLine(ShortContent)>>) >>,
      << Hunk(<<AddLine(ShortContent), DelLine(LongContent), AddLine(LongContent)>>) >>,
      << Hunk(<<AddLine(LongContent), CtxLine(ShortContent)>>),
         Hunk(<<DelLine(ShortContent)>>) >> }

Filenames ==
    { <<"a", "ts">>, <<"lib/b", "js">>, <<"c", "json">>,
      <<"a", "test", "ts">> }

MakeFile(name, hunks) ==
    LET lines == Flatten([h \in DOMAIN hunks |-> hunks[h].lines]) IN
    [filename |-> name, hunks |-> hunks,
     additions |-> CountOfType(lines, "add"),
     deletions |-> CountOfType(lines, "del")]

FileLists ==
    UNION { { [i \in 1..n |-> MakeFile(names[i], shapes[i])] :
                names \in {s \in [1..n -> Filenames] :
                             \A i, j \in 1..n : i # j => s[i] # s[j]},
                shapes \in [1..n -> HunkShapes] } :
            n \in 0..MaxFiles }

Budgets == 1..MaxBudget

ChunkFilesCall ==
    /\ ~chunked
    /\ chunks' = chunkFiles(files, maxTokenBudget)
    /\ chunked' = TRUE
    /\ UNCHANGED <<files, maxTokenBudget>>
    /\ UNCHANGED notChunkerVars

(***************************************************************************)
(* The specifications.  Each machine leaves the variables of the others at *)
(* their idle values.                                                      *)
(***************************************************************************)

ChunkerIdle ==
    /\ files = <<>>
    /\ maxTokenBudget = 1
    /\ chunks = <<>>
    /\ chunked = FALSE

GateIdle ==
    /\ phase = "exited"
    /\ pool = "null"
    /\ dbUp = FALSE
    /\ flags = NoFlags
    /\ flagSetByCaller = {}
    /\ pending = <<>>
    /\ now = 1
    /\ runs = [r \in RunIds |-> NoRun]
    /\ calls = [c \in CallIds |-> NoCall]

NothingStored ==
    /\ github = [k \in ReviewIds |-> NoReview]
    /\ interactionOf = [k \in ReviewIds |-> 0]
    /\ vectorStore = [i \in InteractionIds |-> "absent"]
    /\ graphStore = [i \in InteractionIds |-> "absent"]
    /\ feedbackRows = [i \in InteractionIds |-> 0]
    /\ signals = [s \in SignalIds |-> NoSignal]

FeedbackIdle ==
    /\ learningEnabled = FALSE
    /\ NothingStored

NotFiltered == [done |-> FALSE, inline |-> <<>>, bodyOnly |-> <<>>]

NotRefiltered == [how |-> "none", findings |-> <<>>, inline |-> <<>>, bodyOnly |-> <<>>]

FilterIdle ==
    /\ filterFindingsIn = <<>>
    /\ filterConfig = [inlineThreshold |-> 7, maxInlineComments |-> 5]
    /\ filtered = NotFiltered
    /\ refiltered = NotRefiltered

NoKnowledge ==
    [enabled |-> FALSE, client |-> FALSE, driver |-> FALSE,
     points |-> <<>>, interactions |-> <<>>]

\* answered, rows: history, whether a store call has returned, and given rows
NotRecalling == [at |-> "idle", file |-> 0, answered |-> FALSE, rows |-> FALSE]

NotReviewing == [at |-> "idle", inline |-> 0, enriched |-> 0, withContext |-> 0]

\* found: history, the numbers of approved and rejected entries before the cap
NoContext ==
    [done |-> FALSE, approvedPatterns |-> <<>>, rejectedPatterns |-> <<>>,
     found |-> [approved |-> 0, rejected |-> 0]]

NoPrompt == [formatted |-> FALSE, defined |-> FALSE, parts |-> <<>>]

NoWrites == [vector |-> "none", graph |-> "none"]

RecallIdle ==
    /\ knowledge = NoKnowledge
    /\ recallFiles = <<>>
    /\ recallPc = NotRecalling
    /\ semanticResults = <<>>
    /\ conceptResults = <<>>
    /\ fileHistoryResults = <<>>
    /\ learningCtx = NoContext
    /\ learningPrompt = NoPrompt
    /\ reviewPc = NotReviewing
    /\ reviewError = "none"
    /\ storeWrites = NoWrites

NoText == [raw |-> "", trimmed |-> "", matches |-> {}]

NoReply == [outcome |-> "none", items |-> <<>>]

NoConcepts == [done |-> FALSE, tags |-> <<>>]

ConceptIdle ==
    /\ conceptFiles = <<>>
    /\ conceptText = NoText
    /\ conceptReply = NoReply
    /\ conceptsOut = NoConcepts

NoLoopInput == [chunks |-> 0, budget |-> 0, promptTokens |-> 0]

NoLoop ==
    [chunk |-> 0, at |-> "idle", iteration |-> 0, attempt |-> 0, constrained |-> FALSE,
     used |-> 0, pending |-> 0, result |-> "none"]

ToolLoopIdle ==
    /\ loopInput = NoLoopInput
    /\ toolLoop = NoLoop
    /\ loopOutcomes = <<>>

NoLlmInput == [chunks |-> <<>>, sendable |-> FALSE]

NotCalling == [at |-> "idle", phase |-> 0, chunk |-> 0, attempt |-> 0, log |-> <<>>]

NoReturn ==
    [done |-> FALSE, threw |-> FALSE, comments |-> 0, cross |-> "none", crossAttempts |-> 0]

ReviewerIdle ==
    /\ llmInput = NoLlmInput
    /\ llmPc = NotCalling
    /\ llmDone = <<>>
    /\ llmAnalyses = <<>>
    /\ llmReturn = NoReturn

NoPatch == [defined |-> FALSE, lines |-> <<>>, status |-> "modified"]

NoFile == [status |-> "modified", hunks |-> <<>>, additions |-> 0, deletions |-> 0]

NotParsed == [done |-> FALSE, file |-> NoFile]

ParserIdle ==
    /\ patchIn = NoPatch
    /\ parsedOut = NotParsed

\* stored, upserts, rejected: history of the store calls that succeeded, the
\* upserts Qdrant took and the CREATEs Neo4j refused
NoStores ==
    [client |-> FALSE, driver |-> FALSE, points |-> <<>>, nodes |-> <<>>,
     stored |-> [vector |-> {}, graph |-> {}], upserts |-> 0, rejected |-> 0]

NotSyncing == [status |-> "idle", run |-> 0, stage |-> "none", todo |-> <<>>]

SyncIdle ==
    /\ syncInput = <<>>
    /\ syncStore = NoStores
    /\ syncPc = NotSyncing

NoRead == [key |-> "none", value |-> FALSE, after |-> "none"]

NoFlagLog == [lastSet |-> [k \in FlagKeys |-> "none"], read |-> NoRead]

NoDelivery == [pc |-> "idle", action |-> "none", head |-> 0, event |-> "none",
               gated |-> FALSE, dismissed |-> 0]

HookIdle ==
    /\ flagLog = NoFlagLog
    /\ heldPosts = [c \in CallIds |-> "none"]
    /\ deliveries = [d \in DeliveryIds |-> NoDelivery]
    /\ prReviews = <<>>

NoFindings == [rule |-> <<>>, llm |-> <<>>]

NotDeduped == [done |-> FALSE, findings |-> <<>>]

DedupIdle ==
    /\ dedupIn = NoFindings
    /\ dedupOut = NotDeduped

GuardIdle ==
    /\ recentlyProcessed = {}
    /\ dedupTimers = {}
    /\ clock = 0
    /\ commentLog = <<>>

NoChunkReply == [files |-> <<>>, parsed |-> FALSE, comments |-> <<>>]

NotAnalysed == [done |-> FALSE, analyses |-> <<>>]

ReplyIdle ==
    /\ chunkReply = NoChunkReply
    /\ chunkFindings = NotAnalysed

NoToolCall == [name |-> "none", input |-> "none", limit |-> "none", lookup |-> "none"]

NotCalled == [done |-> FALSE, threw |-> FALSE, value |-> "none", limit |-> 0]

ToolCallIdle ==
    /\ toolCall = NoToolCall
    /\ toolReturn = NotCalled

MaxSyncCalls == 3

SyncCallIds == 1..MaxSyncCalls

\* _progress as the module starts
IdleProgress ==
    [status |-> "idle", repo |-> "", totalPRs |-> 0, processedPRs |-> 0,
     commentsIngested |-> 0, error |-> "none"]

NoSyncCall == [pc |-> "none", response |-> "none", threw |-> "none"]

FlightIdle ==
    /\ progress = IdleProgress
    /\ syncCall = [c \in SyncCallIds |-> NoSyncCall]

LastIdle == DedupIdle /\ GuardIdle /\ ReplyIdle /\ ToolCallIdle /\ FlightIdle

LaterIdle == ReviewerIdle /\ ParserIdle /\ SyncIdle /\ HookIdle /\ LastIdle

SecondIdle == FilterIdle /\ RecallIdle /\ ConceptIdle /\ ToolLoopIdle

EarlierIdle == ChunkerIdle /\ GateIdle /\ FeedbackIdle /\ SecondIdle

MoreIdle == SecondIdle /\ LaterIdle

Init == InitGate /\ ChunkerIdle /\ FeedbackIdle /\ MoreIdle

Next ==
    \/ DbGoesDown
    \/ DbComesUp
    \/ \E hasConnStr \in BOOLEAN : InitMetricsDb(hasConnStr)
    \/ \E enabled \in BOOLEAN : SetFeatureFlag("review_gate", enabled)
    \/ \E r \in RunIds, producesResult \in BOOLEAN, learning \in BOOLEAN :
          BuildReview(r, producesResult, learning)
    \/ \E r \in RunIds : CheckGate(r)
    \/ \E r \in RunIds : HoldReview(r)
    \/ \E r \in RunIds, githubOk \in BOOLEAN : PostReview(r, githubOk)
    \/ \E r \in RunIds : FinishReview(r)

Spec == Init /\ [][Next]_vars

InitQueue ==
    /\ phase = "serving"
    /\ \/ pool = "open" /\ flags = SeedFlags(NoFlags)
       \/ pool = "null" /\ flags = NoFlags
    /\ dbUp \in BOOLEAN
    /\ flagSetByCaller = {}
    /\ pending = <<>>
    /\ now = 1
    /\ runs = [r \in RunIds |-> NoRun]
    /\ calls = [c \in CallIds |-> NoCall]
    /\ ChunkerIdle
    /\ FeedbackIdle
    /\ MoreIdle

NextQueue ==
    \/ DbGoesDown
    \/ DbComesUp
    \/ InsertPendingReview
    \/ \E c \in CallIds, id \in RowIds, resolution \in Resolutions :
          ResolveCall(c, id, resolution)
    \/ \E c \in CallIds : ResolveUpdate(c)

SpecQueue == InitQueue /\ [][NextQueue]_vars

InitFeedback ==
    /\ learningEnabled \in BOOLEAN
    /\ github = [k \in ReviewIds |-> NoReview]
    /\ interactionOf = [k \in ReviewIds |-> 0]
    /\ vectorStore = [i \in InteractionIds |-> "absent"]
    /\ graphStore = [i \in InteractionIds |-> "absent"]
    /\ feedbackRows = [i \in InteractionIds |-> 0]
    /\ signals = [s \in SignalIds |-> NoSignal]
    /\ ChunkerIdle
    /\ GateIdle
    /\ MoreIdle

NextFeedback ==
    \/ \E k \in ReviewIds, inline \in BOOLEAN : PostReviewWithFinding(k, inline)
    \/ \E k \in ReviewIds, vectorOk \in BOOLEAN, graphOk \in BOOLEAN :
          StoreReviewInteractions(k, vectorOk, graphOk)
    \/ \E s \in SignalIds : \E event \in FeedbackEvents : HandleReviewFeedback(s, event)
    \/ \E s \in SignalIds, storeOk \in BOOLEAN : VectorUpdateApproval(s, storeOk)
    \/ \E s \in SignalIds, storeOk \in BOOLEAN : GraphUpdateApproval(s, storeOk)
    \/ \E s \in SignalIds, insertOk \in BOOLEAN : CollectFeedbackMetrics(s, insertOk)

SpecFeedback == InitFeedback /\ [][NextFeedback]_vars

InitChunker ==
    /\ files \in FileLists
    /\ maxTokenBudget \in Budgets
    /\ chunks = <<>>
    /\ chunked = FALSE
    /\ GateIdle
    /\ FeedbackIdle
    /\ MoreIdle

NextChunker == ChunkFilesCall

SpecChunker == InitChunker /\ [][NextChunker]_vars

(***************************************************************************)
(* Chunker claims                                                          *)
(***************************************************************************)
\* The files of the returned chunks, in chunk order
OutFiles == Flatten([c \in DOMAIN chunks |-> chunks[c].files])

IsPrefix(s, t) == Len(s) <= Len(t) /\ SubSeq(t, 1, Len(s)) = s

\* out is the input file itself, or a copy of it under the same filename
\* whose hunks are hunks of the input cut to a prefix of their lines
IsFileOrTruncatedCopy(out, in) ==
    \/ out = in
    \/ /\ out.filename = in.filename
       /\ \A h \in DOMAIN out.hunks :
            \E g \in DOMAIN in.hunks :
                /\ out.hunks[h].header = in.hunks[g].header
                /\ IsPrefix(out.hunks[h].lines, in.hunks[g].lines)

InputOf(out) == CHOOSE i \in DOMAIN files : files[i].filename = out.filename

\* C7: every input file (a file with no hunks too) is in exactly one returned
\* chunk, as itself or as its truncated copy of the same filename; no chunk
\* holds a file that was not in the input; no input gives no chunks.
C7_EveryFileInExactlyOneChunk ==
    chunked =>
        /\ \A i \in DOMAIN files :
              Cardinality({ <<c, k>> \in
                    UNION {{<<c2, k2>> : k2 \in DOMAIN chunks[c2].files} : c2 \in DOMAIN chunks} :
                    chunks[c].files[k].filename = files[i].filename }) = 1
        /\ \A c \in DOMAIN chunks : \A k \in DOMAIN chunks[c].files :
              \E i \in DOMAIN files : IsFileOrTruncatedCopy(chunks[c].files[k], files[i])
        /\ Len(OutFiles) = Len(files)
        /\ (files = <<>> => chunks = <<>>)

C7_Witness ==
    /\ chunked
    /\ Len(files) = 2
    /\ Len(chunks) = 2
    /\ \E i \in DOMAIN files : files[i].hunks = <<>>
    /\ \E p \in DOMAIN OutFiles : OutFiles[p] \notin Range(files)

\* C8 as claimed: every returned chunk's estimate is within the budget.
C8_EveryChunkWithinBudget ==
    chunked => \A c \in DOMAIN chunks : chunks[c].estimatedTokens <= maxTokenBudget

HeaderCost(file) == CeilDiv(FilenameLength(file.filename) + 20, CHARS_PER_TOKEN)

\* C8 amended: every returned chunk's estimate is within the budget, the
\* standalone chunk of a truncated file that keeps a line included; only the
\* standalone chunk of a file left with no line can be above the budget, and
\* then its estimate is the cost of the file's header alone.
C8_ChunkWithinBudgetOrBareHeader ==
    chunked =>
        \A c \in DOMAIN chunks :
            \/ chunks[c].estimatedTokens <= maxTokenBudget
            \/ /\ Len(chunks[c].files) = 1
               /\ chunks[c].files[1].hunks = <<>>
               /\ chunks[c].estimatedTokens = HeaderCost(chunks[c].files[1])

C8_Witness ==
    /\ chunked
    /\ \E c \in DOMAIN chunks :
          /\ Len(chunks[c].files) = 1
          /\ chunks[c].files[1] \notin Range(files)
          /\ chunks[c].files[1].hunks # <<>>
          /\ chunks[c].estimatedTokens <= maxTokenBudget
    /\ Len(chunks) = 2

\* the file's estimated cost is above 80% of the budget
CostsOverEightyPercent(file) == 5 * estimateFileTokens(file) > 4 * maxTokenBudget

IsSoloChunkOf(c, file) ==
    /\ Len(chunks[c].files) = 1
    /\ chunks[c].files[1].filename = file.filename

\* C9 as claimed: a file costing more than 80% of the budget is the only file
\* of its chunk, and the file emitted there costs strictly less than it.
C9_OversizedFileSoloAndSmaller ==
    chunked =>
        \A i \in DOMAIN files :
            CostsOverEightyPercent(files[i]) =>
                \E c \in DOMAIN chunks :
                    /\ IsSoloChunkOf(c, files[i])
                    /\ estimateFileTokens(chunks[c].files[1]) < estimateFileTokens(files[i])

\* C9 amended: a file costing more than 80% of the budget is the only file of
\* its chunk; the file emitted there costs strictly less than the original
\* when the original has at least one line, and the same when it has none.
C9_OversizedFileSoloAndSmallerIfLines ==
    chunked =>
        \A i \in DOMAIN files :
            CostsOverEightyPercent(files[i]) =>
                \E c \in DOMAIN chunks :
                    /\ IsSoloChunkOf(c, files[i])
                    /\ AllLines(files[i]) # <<>> =>
                          estimateFileTokens(chunks[c].files[1]) < estimateFileTokens(files[i])
                    /\ AllLines(files[i]) = <<>> =>
                          estimateFileTokens(chunks[c].files[1]) = estimateFileTokens(files[i])

C9_Witness ==
    /\ chunked
    /\ Len(files) = 2
    /\ \E i \in DOMAIN files :
          /\ CostsOverEightyPercent(files[i])
          /\ AllLines(files[i]) # <<>>
          /\ \E c \in DOMAIN chunks :
                /\ IsSoloChunkOf(c, files[i])
                /\ AllLines(chunks[c].files[1]) # <<>>
    /\ \E i \in DOMAIN files :
          ~CostsOverEightyPercent(files[i])

\* The four classes the ordering is stated over, read off the filename
ClassRank(filename) ==
    LET n == Len(filename) IN
    CASE n >= 3 /\ filename[n - 1] \in {"test", "spec"} -> 2
      [] filename[n] \in {"ts", "js"} -> 4
      [] filename[n] = "json" -> 3
      [] filename[n] = "md" -> 1

ChunkIndexOf(filename) ==
    CHOOSE c \in DOMAIN chunks :
        \E k \in DOMAIN chunks[c].files : chunks[c].files[k].filename = filename

C10_TieWitness ==
    /\ chunked
    /\ Len(files) = 2
    /\ ClassRank(files[1].filename) = ClassRank(files[2].filename)
    /\ estimateFileTokens(files[1]) > estimateFileTokens(files[2])
    /\ OutFiles[1].filename = files[2].filename

(***************************************************************************)
(* Review gate claims                                                      *)
(***************************************************************************)
\* the calls that returned row id, and those that ran their UPDATE against
\* the existing row id and returned null
Winners(id) ==
    {c \in CallIds : calls[c].pc = "returned" /\ calls[c].id = id /\ calls[c].result = "row"}

Losers(id) ==
    {c \in CallIds : /\ calls[c].pc = "returned" /\ calls[c].id = id
                     /\ calls[c].result = "null" /\ calls[c].rowExisted}

\* C1: of the resolve calls that have run against one pending review, issued
\* one after another or concurrently, with any mix of resolutions, exactly
\* one returned the row, and the row keeps that call's resolution and
\* resolved_at; every other call returned null and changed neither.
C1_ExactlyOneResolveWins ==
    \A id \in DOMAIN pending :
        /\ Cardinality(Winners(id)) <= 1
        /\ Losers(id) # {} => Cardinality(Winners(id)) = 1
        /\ \A c \in Winners(id) :
              /\ pending[id].status = calls[c].resolution
              /\ pending[id].resolved_at = calls[c].at
        /\ Winners(id) = {} =>
              /\ pending[id].status = "pending"
              /\ pending[id].resolved_at = 0

\* two calls in flight on one review at once: the one issued first ran its
\* UPDATE second and lost to a call with the other resolution
C1_Witness ==
    \E id \in DOMAIN pending : \E c1, c2 \in CallIds :
        /\ c1 < c2
        /\ c2 \in Winners(id)
        /\ c1 \in Losers(id)
        /\ calls[c1].resolution # calls[c2].resolution
        /\ pending[id].status = calls[c2].resolution

RowsOf(r) == {id \in DOMAIN pending : pending[id].run = r}

GateWasRead(r) == runs[r].pc \notin {"idle", "skipped", "built"}

\* C2: a run that produced a result and read the gate as true inserts the
\* result as one pending review with status 'pending' and invokes neither
\* postReview nor collectReviewMetrics nor interaction storage; a run that
\* read it as false invokes postReview and inserts no pending review.
C2_GateHoldsOrPosts ==
    \A r \in RunIds :
        GateWasRead(r) =>
            IF runs[r].gated
            THEN /\ ~runs[r].postInvoked
                 /\ ~runs[r].metrics
                 /\ ~runs[r].stored
                 /\ runs[r].pc = "done" =>
                       /\ Cardinality(RowsOf(r)) = 1
                       /\ runs[r].heldAs = "pending"
            ELSE /\ RowsOf(r) = {}
                 /\ runs[r].pc \in {"posted", "done", "failed"} => runs[r].postInvoked

\* one run held behind the gate, another posted with metrics and stored
\* interactions after the gate was turned off
C2_Witness ==
    \E r1, r2 \in RunIds :
        /\ runs[r1].pc = "done" /\ runs[r1].gated /\ RowsOf(r1) # {}
        /\ runs[r2].pc = "done" /\ ~runs[r2].gated
        /\ runs[r2].posted /\ runs[r2].metrics /\ runs[r2].stored

\* C3 as claimed: orchestrateReview invokes postReview only after the
\* review_gate flag was read successfully and read as false; a run whose
\* flag read failed because the store was unreachable never posts.  (A
\* process started without POSTGRES_URL has no gate store at all and is not
\* held against the claim here.)
C3_PostsOnlyAfterFlagReadFalse ==
    \A r \in RunIds :
        (runs[r].postInvoked /\ runs[r].flagRead # "nopool") =>
            (runs[r].flagRead = "ok" /\ ~runs[r].gated)

\* C4 as claimed: while no caller has set review_gate, getFeatureFlag returns
\* false for it once initMetricsDb has returned, and no review is held.
C4_GateDefaultsToFalse ==
    (phase = "serving" /\ "review_gate" \notin flagSetByCaller) =>
        /\ getFeatureFlag("review_gate").value = FALSE
        /\ pending = <<>>

(***************************************************************************)
(* Feedback claims                                                         *)
(***************************************************************************)
ResolvedApprovals == {"true", "false"}

\* C5 as claimed: once an interaction's approval is resolved, a further
\* feedback signal changes it in neither store, and once a feedback row is
\* counted for an interaction no further row is counted for it.
C5_ResolvedApprovalIsFinal ==
    [][\A i \in InteractionIds :
          /\ vectorStore[i] \in ResolvedApprovals => vectorStore'[i] = vectorStore[i]
          /\ graphStore[i] \in ResolvedApprovals => graphStore'[i] = graphStore[i]
          /\ feedbackRows[i] >= 1 => feedbackRows'[i] = feedbackRows[i]]_vars

\* C6 as claimed: the review body and every inline comment posted for a
\* finding whose interaction is stored embed that interaction's id, so a
\* resolved signal on the comment reaches recordFeedback with that id.
C6_PostedBodiesEmbedInteractionId ==
    \A k \in ReviewIds :
        (github[k].posted /\ interactionOf[k] # 0) =>
            /\ MatchInteractionId(github[k].body) = interactionOf[k]
            /\ \A c \in DOMAIN github[k].comments :
                  /\ MatchInteractionId(github[k].comments[c]) = interactionOf[k]
                  /\ FeedbackCallOf([kind |-> "comment", action |-> "resolved",
                                     body |-> github[k].comments[c]]).call

(***************************************************************************)
(* src/review/filter.ts: filterFindings.  A confidence is a number of      *)
(* tenths (0.7 is 7); a finding is told from the others by its line.       *)
(***************************************************************************)
MaxFindings == 3
MaxInline == 3

\* Variant rank that does not tell the severities apart
SeverityRankFlat(sev) == 1

\* severityRank(s)
severityRank(sev) == IF sev = "error" THEN 3 ELSE IF sev = "warning" THEN 2 ELSE 1

\* Variant eligibility: errors only
IsInlineWorthyErrorsOnly(finding, threshold) == finding.severity = "error"

\* isInlineWorthy(finding, threshold)
isInlineWorthy(finding, threshold) ==
    IF finding.severity = "error" THEN TRUE
    ELSE IF finding.category = "security" \/ finding.category = "bugs" THEN TRUE
    ELSE IF finding.severity = "warning" /\ finding.confidence >= threshold THEN TRUE
    ELSE FALSE

\* Variant comparator: confidence only
CompareByConfidenceOnly(a, b) == b.confidence - a.confidence

\* The comparator handed to inlineCandidates.sort
CompareFindings(a, b) ==
    LET sevDiff == severityRank(b.severity) - severityRank(a.severity) IN
    IF sevDiff # 0 THEN sevDiff ELSE b.confidence - a.confidence

\* Variant insertion that puts f in front of the elements it ties with
InsertFindingBeforeEquals(sorted, f) ==
    LET before == {i \in DOMAIN sorted : CompareFindings(sorted[i], f) < 0}
        k == Cardinality(before)
    IN  SubSeq(sorted, 1, k) \o <<f>> \o SubSeq(sorted, k + 1, Len(sorted))

\* Array.prototype.sort is stable: f goes behind every element that does not
\* sort after it
InsertFinding(sorted, f) ==
    LET before == {i \in DOMAIN sorted : CompareFindings(sorted[i], f) <= 0}
        k == Cardinality(before)
    IN  SubSeq(sorted, 1, k) \o <<f>> \o SubSeq(sorted, k + 1, Len(sorted))

RECURSIVE SortFindings(_, _)
SortFindings(input, sorted) ==
    IF input = <<>> THEN sorted
    ELSE SortFindings(Tail(input), InsertFinding(sorted, Head(input)))

\* findings.filter in the order of the input: the two pushes of the for loop
RECURSIVE SelectFindings(_, _, _)
SelectFindings(findings, threshold, worthy) ==
    IF findings = <<>> THEN <<>>
    ELSE (IF isInlineWorthy(Head(findings), threshold) = worthy
          THEN <<Head(findings)>> ELSE <<>>)
         \o SelectFindings(Tail(findings), threshold, worthy)

\* inlineCandidates.slice(0, maxInline), maxInline >= 0
SliceHead(s, maxInline) ==
    SubSeq(s, 1, IF maxInline < Len(s) THEN maxInline ELSE Len(s))

\* Variant overflow that is thrown away
SliceTailDropped(s, maxInline) == <<>>

\* inlineCandidates.slice(maxInline), maxInline >= 0
SliceTail(s, maxInline) ==
    SubSeq(s, (IF maxInline < Len(s) THEN maxInline ELSE Len(s)) + 1, Len(s))

filterFindings(findings, config) ==
    LET threshold == config.inlineThreshold
        maxInline == config.maxInlineComments
        inlineCandidates == SortFindings(SelectFindings(findings, threshold, TRUE), <<>>)
        bodyOnly == SelectFindings(findings, threshold, FALSE)
    IN  [inline |-> SliceHead(inlineCandidates, maxInline),
         bodyOnly |-> bodyOnly \o SliceTail(inlineCandidates, maxInline)]

(***************************************************************************)
(* Filter inputs: findings of the kinds the policy tells apart, in every   *)
(* order, under every cap up to MaxInline.                                 *)
(***************************************************************************)
FindingKinds ==
    { [severity |-> "error",   category |-> "style",       confidence |-> 3],
      [severity |-> "error",   category |-> "style",       confidence |-> 9],
      [severity |-> "warning", category |-> "performance", confidence |-> 9],
      [severity |-> "warning", category |-> "performance", confidence |-> 5],
      [severity |-> "warning", category |-> "bugs",        confidence |-> 5],
      [severity |-> "info",    category |-> "security",    confidence |-> 3],
      [severity |-> "info",    category |-> "style",       confidence |-> 10] }

MakeFinding(line, kind) ==
    [path |-> "test.ts", line |-> line, severity |-> kind.severity,
     category |-> kind.category, confidence |-> kind.confidence]

FindingLists ==
    UNION { { [i \in 1..n |-> MakeFinding(i, kinds[i])] : kinds \in [1..n -> FindingKinds] }
            : n \in 0..MaxFindings }

InlineThresholds == {7, 10}

FilterConfigs ==
    [inlineThreshold : InlineThresholds, maxInlineComments : 0..MaxInline]

\* const { inline, bodyOnly } = filterFindings(allFindings, config)
FilterFindingsCall ==
    /\ ~filtered.done
    /\ LET out == filterFindings(filterFindingsIn, filterConfig) IN
       filtered' = [done |-> TRUE, inline |-> out.inline, bodyOnly |-> out.bodyOnly]
    /\ UNCHANGED <<filterFindingsIn, filterConfig, refiltered>>
    /\ UNCHANGED notFilterVars

\* filterFindings again, on inline followed by bodyOnly of the first result
FilterAgainOnResult ==
    /\ filtered.done
    /\ refiltered.how = "none"
    /\ LET again == filtered.inline \o filtered.bodyOnly
           out == filterFindings(again, filterConfig)
       IN  refiltered' = [how |-> "repartition", findings |-> again,
                          inline |-> out.inline, bodyOnly |-> out.bodyOnly]
    /\ UNCHANGED <<filterFindingsIn, filterConfig, filtered>>
    /\ UNCHANGED notFilterVars

\* filterFindings again, on the same findings in another order
FilterPermuted(order) ==
    /\ filtered.done
    /\ refiltered.how = "none"
    /\ LET permuted == [i \in DOMAIN filterFindingsIn |-> filterFindingsIn[order[i]]]
           out == filterFindings(permuted, filterConfig)
       IN  refiltered' = [how |-> "permuted", findings |-> permuted,
                          inline |-> out.inline, bodyOnly |-> out.bodyOnly]
    /\ UNCHANGED <<filterFindingsIn, filterConfig, filtered>>
    /\ UNCHANGED notFilterVars

InitFilter ==
    /\ filterFindingsIn \in FindingLists
    /\ filterConfig \in FilterConfigs
    /\ filtered = NotFiltered
    /\ refiltered = NotRefiltered
    /\ ChunkerIdle
    /\ GateIdle
    /\ FeedbackIdle
    /\ RecallIdle
    /\ ConceptIdle
    /\ ToolLoopIdle
    /\ LaterIdle

NextFilter ==
    \/ FilterFindingsCall
    \/ FilterAgainOnResult
    \/ \E order \in Permutations(DOMAIN filterFindingsIn) : FilterPermuted(order)

SpecFilter == InitFilter /\ [][NextFilter]_vars

(***************************************************************************)
(* Filter claims                                                           *)
(***************************************************************************)
\* the eligibility policy as the specification words it
EligibleByPolicy(f) ==
    \/ f.severity = "error"
    \/ f.category \in {"security", "bugs"}
    \/ f.severity = "warning" /\ f.confidence >= filterConfig.inlineThreshold

EligibleIn(findings) == {f \in Range(findings) : EligibleByPolicy(f)}

\* error > warning > info
PriorityOfSeverity(sev) ==
    CASE sev = "error" -> 3 [] sev = "warning" -> 2 [] OTHER -> 1

HigherPriority(a, b) ==
    \/ PriorityOfSeverity(a.severity) > PriorityOfSeverity(b.severity)
    \/ /\ PriorityOfSeverity(a.severity) = PriorityOfSeverity(b.severity)
       /\ a.confidence > b.confidence

SamePriority(a, b) == a.severity = b.severity /\ a.confidence = b.confidence

\* C11: when the eligible findings are no more than maxInlineComments,
\* inline is exactly the set of eligible findings (error, or security/bugs,
\* or warning with confidence >= inlineThreshold) and every other finding is
\* in bodyOnly.
C11_InlineIsExactlyTheEligible ==
    (filtered.done /\ Cardinality(EligibleIn(filterFindingsIn)) <= filterConfig.maxInlineComments)
    => /\ Range(filtered.inline) = EligibleIn(filterFindingsIn)
       /\ Range(filtered.bodyOnly) = Range(filterFindingsIn) \ EligibleIn(filterFindingsIn)

C11_Witness ==
    /\ filtered.done
    /\ Len(filterFindingsIn) = 3
    /\ Len(filtered.inline) = 2
    /\ Len(filtered.bodyOnly) = 1
    /\ filterConfig.maxInlineComments = 2
    /\ \E f \in Range(filtered.inline) : f.severity = "info" /\ f.category = "security"
    /\ \E f \in Range(filtered.bodyOnly) : f.severity = "warning"

\* C12: inline holds min(maxInlineComments, number of eligible findings)
\* findings, and no eligible finding left out of inline has a higher priority
\* (severity, then confidence) than a finding kept in inline.
C12_CapKeepsTheHighestPriority ==
    filtered.done =>
        LET eligible == EligibleIn(filterFindingsIn)
            n == Cardinality(eligible)
            cap == filterConfig.maxInlineComments
        IN  /\ Len(filtered.inline) = (IF cap < n THEN cap ELSE n)
            /\ \A out \in eligible \ Range(filtered.inline) :
                  \A kept \in Range(filtered.inline) : ~HigherPriority(out, kept)

\* cap 1: an error of confidence 0.3 is kept ahead of a warning of 0.9
C12_Witness ==
    /\ filtered.done
    /\ filterConfig.maxInlineComments = 1
    /\ Len(filterFindingsIn) = 2
    /\ filterFindingsIn[1].severity = "warning" /\ filterFindingsIn[1].confidence = 9
    /\ filterFindingsIn[2].severity = "error" /\ filterFindingsIn[2].confidence = 3
    /\ filtered.inline = <<filterFindingsIn[2]>>
    /\ filtered.bodyOnly = <<filterFindingsIn[1]>>

\* C13: every input finding is exactly once in inline or bodyOnly, nothing
\* else is in either, and the eligible findings cut by the cap are in
\* bodyOnly.
C13_NoFindingDroppedOrDuplicated ==
    filtered.done =>
        LET all == filtered.inline \o filtered.bodyOnly IN
        /\ Len(all) = Len(filterFindingsIn)
        /\ Range(all) = Range(filterFindingsIn)
        /\ \A i, j \in DOMAIN all : all[i] = all[j] => i = j
        /\ EligibleIn(filterFindingsIn) \ Range(filtered.inline) \subseteq Range(filtered.bodyOnly)

C13_Witness ==
    /\ filtered.done
    /\ Len(filterFindingsIn) = 3
    /\ Cardinality(EligibleIn(filterFindingsIn)) = 2
    /\ Len(filtered.inline) = 1
    /\ Len(filtered.bodyOnly) = 2

C15_OrderIndependent ==
    refiltered.how = "permuted" =>
        /\ Range(refiltered.inline) = Range(filtered.inline)
        /\ Range(refiltered.bodyOnly) = Range(filtered.bodyOnly)

PriorityKeys(findings) ==
    [i \in DOMAIN findings |-> <<findings[i].severity, findings[i].confidence>>]

PositionIn(findings, f) == CHOOSE i \in DOMAIN findings : findings[i] = f

\* C15 amended: every permutation of the same findings gives inline lists
\* with the same severities and confidences in the same order; it gives the
\* same inline set and the same bodyOnly set when no two eligible findings
\* have the same severity and confidence; among eligible findings that do,
\* the cap keeps the ones earlier in the input.
C15_OrderIndependentUpToTies ==
    refiltered.how = "permuted" =>
        /\ PriorityKeys(refiltered.inline) = PriorityKeys(filtered.inline)
        /\ (\A a, b \in EligibleIn(filterFindingsIn) : SamePriority(a, b) => a = b)
           => /\ Range(refiltered.inline) = Range(filtered.inline)
              /\ Range(refiltered.bodyOnly) = Range(filtered.bodyOnly)
        /\ \A kept \in Range(refiltered.inline) :
              \A out \in EligibleIn(filterFindingsIn) \ Range(refiltered.inline) :
                  SamePriority(kept, out) =>
                      PositionIn(refiltered.findings, kept) < PositionIn(refiltered.findings, out)

\* a permutation that changes the order, of findings without ties, cut by
\* the cap
C15_Witness ==
    /\ refiltered.how = "permuted"
    /\ refiltered.findings # filterFindingsIn
    /\ Cardinality(EligibleIn(filterFindingsIn)) = 3
    /\ \A a, b \in EligibleIn(filterFindingsIn) : SamePriority(a, b) => a = b
    /\ Len(refiltered.inline) = 2
    /\ refiltered.inline = filtered.inline

(***************************************************************************)
(* Recall: src/learning/recall.ts                                          *)
(*                                                                         *)
(* A RetrievedPattern keeps the fields recall reads: filePath, category,   *)
(* approved and reviewComment.  approved is "true", "false", "null" or     *)
(* "undefined" (a Qdrant payload without the key); the graph queries only  *)
(* return interactions whose approved IS NOT NULL.  A reviewComment is the *)
(* sequence of its 50-character blocks, the last one possibly shorter, so  *)
(* that slice(0, 50) is the first block and slice(0, 200) the first four.  *)
(***************************************************************************)
MaxRecallFiles == 2

\* recall.ts: searchSimilar(query, repo, 10)
SemanticLimit == 10

\* recall.ts: getRelatedInteractions(concepts, repo, 5)
ConceptLimit == 5

\* recall.ts: getFileHistory(file.filename, repo, 3)
HistoryLimit == 3

\* recall.ts: for (const file of files.slice(0, 3))
HistoryFiles == 3

\* recall.ts: .slice(0, 5) of the approved and of the rejected entries
PatternCap == 5

\* reviewComment.slice(0, 50), in blocks
KeyBlocks == 1

\* reviewComment.slice(0, 200), in blocks
PromptBlocks == 4

MinOf(a, b) == IF a <= b THEN a ELSE b

\* reviewComment.slice(0, 50 * blocks)
CommentSlice(comment, blocks) == SubSeq(comment, 1, MinOf(blocks, Len(comment)))

RECURSIVE JoinBlocks(_)
\* the string a sequence of blocks stands for
JoinBlocks(blocks) ==
    IF blocks = <<>> THEN "" ELSE Head(blocks) \o JoinBlocks(Tail(blocks))

\* const key = `${p.filePath}:${p.reviewComment.slice(0, 50)}`
PatternKey(p) == p.filePath \o ":" \o JoinBlocks(CommentSlice(p.reviewComment, KeyBlocks))

RECURSIVE KeepAllFrom(_, _, _)
\* a filter that lets every pattern through
KeepAllFrom(patterns, seen, kept) ==
    IF patterns = <<>> THEN kept
    ELSE KeepAllFrom(Tail(patterns), seen, Append(kept, Head(patterns)))

RECURSIVE DedupFrom(_, _, _)
\* patterns.filter((p) => { if (seen.has(key)) return false; seen.add(key); return true })
DedupFrom(patterns, seen, kept) ==
    IF patterns = <<>> THEN kept
    ELSE LET p == Head(patterns)
             key == PatternKey(p)
         IN  IF key \in seen
             THEN DedupFrom(Tail(patterns), seen, kept)
             ELSE DedupFrom(Tail(patterns), seen \cup {key}, Append(kept, p))

deduplicatePatterns(patterns) == DedupFrom(patterns, {}, <<>>)

RECURSIVE FilterApproved(_, _)
\* allResults.filter((r) => r.approved === value)
FilterApproved(patterns, value) ==
    IF patterns = <<>> THEN <<>>
    ELSE IF Head(patterns).approved = value
         THEN <<Head(patterns)>> \o FilterApproved(Tail(patterns), value)
         ELSE FilterApproved(Tail(patterns), value)

\* retrieveLearningContext from the merge on: deduplicate, split, cap
SplitPatterns(semantic, concept, fileHistory) ==
    LET allResults == deduplicatePatterns(semantic \o concept \o fileHistory)
    IN  [approvedPatterns |-> SliceHead(FilterApproved(allResults, "true"), PatternCap),
         rejectedPatterns |-> SliceHead(FilterApproved(allResults, "false"), PatternCap),
         found |-> [approved |-> Len(FilterApproved(allResults, "true")),
                    rejected |-> Len(FilterApproved(allResults, "false"))]]

\* a line of the prompt that is fixed text
TextLine(text) == [bullet |-> FALSE, category |-> "", filePath |-> "", comment |-> <<text>>]

\* - **category** on filePath: reviewComment.slice(0, 200)
PatternLine(p) ==
    [bullet |-> TRUE, category |-> p.category, filePath |-> p.filePath,
     comment |-> CommentSlice(p.reviewComment, PromptBlocks)]

PatternLines(patterns) == [i \in DOMAIN patterns |-> PatternLine(patterns[i])]

\* the guard of formatLearningContext if it looked at approvedPatterns only
ApprovedEmpty(ctx) == Len(ctx.approvedPatterns) = 0

\* ctx.approvedPatterns.length === 0 && ctx.rejectedPatterns.length === 0
BothEmpty(ctx) == Len(ctx.approvedPatterns) = 0 /\ Len(ctx.rejectedPatterns) = 0

\* formatLearningContext: undefined, or the parts that are joined with "\n"
formatLearningContext(ctx) ==
    IF BothEmpty(ctx)
    THEN [formatted |-> TRUE, defined |-> FALSE, parts |-> <<>>]
    ELSE [formatted |-> TRUE, defined |-> TRUE,
          parts |->
             << TextLine("## Learning from Past Reviews"),
                TextLine("Use these patterns from past reviews to improve your feedback quality.\n") >>
             \o (IF Len(ctx.approvedPatterns) > 0
                 THEN <<TextLine("### Patterns that were well-received (do more like these):")>>
                      \o PatternLines(ctx.approvedPatterns) \o <<TextLine("")>>
                 ELSE <<>>)
             \o (IF Len(ctx.rejectedPatterns) > 0
                 THEN <<TextLine("### Patterns that were dismissed (avoid these approaches):")>>
                      \o PatternLines(ctx.rejectedPatterns) \o <<TextLine("")>>
                 ELSE <<>>)]

\* the length of one line of the prompt; 13 is the fixed text of a bullet line
LineLength(line) ==
    Len(JoinBlocks(line.comment))
    + (IF line.bullet THEN 13 + Len(line.category) + Len(line.filePath) ELSE 0)

RECURSIVE JoinedLength(_)
\* parts.join("\n").length
JoinedLength(parts) ==
    IF parts = <<>> THEN 0
    ELSE LineLength(Head(parts))
         + (IF Len(parts) > 1 THEN 1 ELSE 0) + JoinedLength(Tail(parts))

(***************************************************************************)
(* The store calls.  searchSimilar, getRelatedInteractions and             *)
(* getFileHistory return [] when the client or driver is null, and wrap    *)
(* the request in try/catch returning [].  Opening and closing a session   *)
(* do no request of their own.  storeInteraction has the same shape and    *)
(* is called with .catch(() => {}).                                        *)
(***************************************************************************)
\* a store call whose failure reaches the caller
StoreCallUncaught(initialised, ok, results) ==
    IF ~initialised
    THEN [threw |-> FALSE, caught |-> FALSE, answered |-> FALSE, value |-> <<>>]
    ELSE IF ok
    THEN [threw |-> FALSE, caught |-> FALSE, answered |-> TRUE, value |-> results]
    ELSE [threw |-> TRUE, caught |-> FALSE, answered |-> FALSE, value |-> <<>>]

\* if (!_client) return []; try { ... return results } catch { return [] }
StoreCall(initialised, ok, results) ==
    IF ~initialised
    THEN [threw |-> FALSE, caught |-> FALSE, answered |-> FALSE, value |-> <<>>]
    ELSE IF ok
    THEN [threw |-> FALSE, caught |-> FALSE, answered |-> TRUE, value |-> results]
    ELSE [threw |-> FALSE, caught |-> TRUE, answered |-> FALSE, value |-> <<>>]

\* the result lists a search with a limit can return from what Qdrant holds
Windows(held, limit) ==
    { SubSeq(held, w[1], w[2]) :
        w \in { v \in (1..(Len(held) + 1)) \X (0..Len(held)) :
                  v[2] >= v[1] - 1 /\ v[2] - v[1] + 1 <= limit } }

\* the result lists an ordered graph query with a limit can return
TopOf(held, limit) == { SubSeq(held, 1, n) : n \in 0..MinOf(limit, Len(held)) }

(***************************************************************************)
(* What the stores hold.  Both hold interactions of earlier reviews; an    *)
(* approval written to one store and not the other leaves them disagreeing.*)
(***************************************************************************)
Pattern(filePath, reviewComment, approved) ==
    [filePath |-> filePath, reviewComment |-> reviewComment,
     category |-> "style", approved |-> approved]

LongBlock == "Consider extracting this branch into a helper: "

\* Qdrant points, best score first
StoredPoints ==
    << Pattern("a.ts", <<"null check">>, "true"),
       Pattern("a.ts", <<"rename it">>, "true"),
       Pattern("b.ts", <<"null check">>, "null"),
       Pattern("b.ts", <<LongBlock, "it is used twice">>, "true"),
       Pattern("b.ts", <<LongBlock, "the name is misleading">>, "true"),
       Pattern("c.ts", <<"null check">>, "undefined"),
       Pattern("c.ts", <<"rename it">>, "true"),
       Pattern("d.ts", <<"null check">>, "true") >>

\* Neo4j interactions with approved IS NOT NULL
StoredInteractions ==
    << Pattern("e.ts", <<"null check">>, "true"),
       Pattern("a.ts", <<"null check">>, "false"),
       Pattern("e.ts", <<"rename it">>, "false"),
       Pattern("c.ts", <<LongBlock, LongBlock, LongBlock, LongBlock, "and so on">>, "true") >>

\* the same interactions with every approval the other way round
Opposite(patterns) ==
    [i \in DOMAIN patterns |->
        [patterns[i] EXCEPT !.approved =
            IF @ = "true" THEN "false" ELSE IF @ = "false" THEN "true" ELSE @]]

KnowledgeStates ==
    { NoKnowledge }
    \cup { [enabled |-> TRUE, client |-> c, driver |-> d,
            points |-> IF o THEN Opposite(StoredPoints) ELSE StoredPoints,
            interactions |-> IF o THEN Opposite(StoredInteractions) ELSE StoredInteractions]
          : c \in BOOLEAN, d \in BOOLEAN, o \in BOOLEAN }

RecallFilenames == <<"a.ts", "b.ts", "c.ts", "d.ts">>

RecallFileLists == { SubSeq(RecallFilenames, 1, n) : n \in 1..MaxRecallFiles }

MaxInlineFindings == 1

(***************************************************************************)
(* orchestrateReview, steps 5 to 16, with retrieveLearningContext inlined  *)
(* as the steps between its awaits.                                        *)
(***************************************************************************)
\* an await whose promise rejects: nothing in orchestrateReview catches it
Throws(cause) ==
    /\ reviewPc' = [reviewPc EXCEPT !.at = "threw"]
    /\ reviewError' = cause

\* if (isLearningEnabled(env) && config.learning.enabled)
BeginReview ==
    /\ reviewPc.at = "start"
    /\ IF knowledge.enabled
       THEN /\ reviewPc' = [reviewPc EXCEPT !.at = "recall"]
            /\ recallPc' = [at |-> "semantic", file |-> 0, answered |-> FALSE, rows |-> FALSE]
       ELSE /\ reviewPc' = [reviewPc EXCEPT !.at = "llm"]
            /\ UNCHANGED recallPc
    /\ UNCHANGED <<knowledge, recallFiles, semanticResults, conceptResults,
                   fileHistoryResults, learningCtx, learningPrompt, reviewError,
                   storeWrites>>
    /\ UNCHANGED notRecallVars

\* const semanticResults = await searchSimilar(query, repo, 10)
SearchSimilar(ok, results) ==
    /\ reviewPc.at = "recall"
    /\ recallPc.at = "semantic"
    /\ LET call == StoreCall(knowledge.client, ok, results) IN
       IF call.threw
       THEN /\ Throws("store")
            /\ UNCHANGED <<recallPc, semanticResults>>
       ELSE /\ semanticResults' = call.value
            /\ recallPc' = [recallPc EXCEPT !.at = "concept",
                               !.answered = @ \/ call.answered,
                               !.rows = @ \/ Len(call.value) > 0]
            /\ UNCHANGED <<reviewPc, reviewError>>
    /\ UNCHANGED <<knowledge, recallFiles, conceptResults, fileHistoryResults,
                   learningCtx, learningPrompt, storeWrites>>
    /\ UNCHANGED notRecallVars

\* const concepts = extractConcepts(files, query): the promise, not awaited;
\* const conceptResults = await getRelatedInteractions(concepts, repo, 5).
\* concepts.length is undefined, so the driver is asked; what the query makes
\* of the promise as a parameter is the driver's business: rows, or an error
\* that is caught.
GetRelatedInteractions(ok, results) ==
    /\ reviewPc.at = "recall"
    /\ recallPc.at = "concept"
    /\ LET call == StoreCall(knowledge.driver, ok, results) IN
       IF call.threw
       THEN /\ Throws("store")
            /\ UNCHANGED <<recallPc, conceptResults>>
       ELSE /\ conceptResults' = call.value
            /\ recallPc' = [recallPc EXCEPT !.at = "history", !.file = 1,
                               !.answered = @ \/ call.answered,
                               !.rows = @ \/ Len(call.value) > 0]
            /\ UNCHANGED <<reviewPc, reviewError>>
    /\ UNCHANGED <<knowledge, recallFiles, semanticResults, fileHistoryResults,
                   learningCtx, learningPrompt, storeWrites>>
    /\ UNCHANGED notRecallVars

\* for (const file of files.slice(0, 3)) {
\*   const history = await getFileHistory(file.filename, repo, 3);
\*   fileHistoryResults.push(...history) }
GetFileHistory(ok, results) ==
    /\ reviewPc.at = "recall"
    /\ recallPc.at = "history"
    /\ recallPc.file <= MinOf(Len(recallFiles), HistoryFiles)
    /\ LET call == StoreCall(knowledge.driver, ok, results) IN
       IF call.threw
       THEN /\ Throws("store")
            /\ UNCHANGED <<recallPc, fileHistoryResults>>
       ELSE /\ fileHistoryResults' = fileHistoryResults \o call.value
            /\ recallPc' = [recallPc EXCEPT !.file = @ + 1,
                               !.answered = @ \/ call.answered,
                               !.rows = @ \/ Len(call.value) > 0]
            /\ UNCHANGED <<reviewPc, reviewError>>
    /\ UNCHANGED <<knowledge, recallFiles, semanticResults, conceptResults,
                   learningCtx, learningPrompt, storeWrites>>
    /\ UNCHANGED notRecallVars

\* the rest of retrieveLearningContext, and
\* learningPrompt = formatLearningContext(learningCtx)
ReturnLearningContext ==
    /\ reviewPc.at = "recall"
    /\ recallPc.at = "history"
    /\ recallPc.file > MinOf(Len(recallFiles), HistoryFiles)
    /\ LET ctx == SplitPatterns(semanticResults, conceptResults, fileHistoryResults) IN
       /\ learningCtx' = [done |-> TRUE, approvedPatterns |-> ctx.approvedPatterns,
                          rejectedPatterns |-> ctx.rejectedPatterns,
                          found |-> ctx.found]
       /\ learningPrompt' = formatLearningContext(ctx)
    /\ recallPc' = [recallPc EXCEPT !.at = "done"]
    /\ reviewPc' = [reviewPc EXCEPT !.at = "llm"]
    /\ semanticResults' = <<>>
    /\ conceptResults' = <<>>
    /\ fileHistoryResults' = <<>>
    /\ UNCHANGED <<knowledge, recallFiles, reviewError, storeWrites>>
    /\ UNCHANGED notRecallVars

\* steps 6 to 8: reviewWithLLM (a failed chunk is caught and skipped),
\* deduplicateFindings, filterFindings; inline is the number of inline findings
ReviewAndFilter(inline) ==
    /\ reviewPc.at = "llm"
    /\ reviewPc' = [reviewPc EXCEPT !.at = "enrich", !.inline = inline]
    /\ UNCHANGED <<knowledge, recallFiles, recallPc, semanticResults, conceptResults,
                   fileHistoryResults, learningCtx, learningPrompt, reviewError,
                   storeWrites>>
    /\ UNCHANGED notRecallVars

\* enrichFindings, one finding of the loop: getRelatedInteractions and
\* getFileHistory under Promise.all inside try; on a throw the finding is
\* pushed as it is
EnrichFinding(relatedOk, historyOk, hasContext) ==
    /\ reviewPc.at = "enrich"
    /\ knowledge.enabled
    /\ reviewPc.enriched < reviewPc.inline
    /\ LET related == StoreCall(knowledge.driver, relatedOk, <<>>)
           history == StoreCall(knowledge.driver, historyOk, <<>>)
           context == ~related.threw /\ ~history.threw
                      /\ (related.answered \/ history.answered) /\ hasContext
       IN  reviewPc' = [reviewPc EXCEPT !.enriched = @ + 1,
                           !.withContext = @ + (IF context THEN 1 ELSE 0)]
    /\ UNCHANGED <<knowledge, recallFiles, recallPc, semanticResults, conceptResults,
                   fileHistoryResults, learningCtx, learningPrompt, reviewError,
                   storeWrites>>
    /\ UNCHANGED notRecallVars

\* steps 10 to 13: the body and the inline comments are built; the gate is read
\* (getFeatureFlag answers false when the database does not); a gated review
\* is inserted into pending_reviews and the function returns
CheckReviewGate(gated, insertOk) ==
    /\ reviewPc.at = "enrich"
    /\ knowledge.enabled => reviewPc.enriched = reviewPc.inline
    /\ IF gated
       THEN IF insertOk
            THEN /\ reviewPc' = [reviewPc EXCEPT !.at = "held"]
                 /\ UNCHANGED reviewError
            ELSE Throws("gate")
       ELSE /\ reviewPc' = [reviewPc EXCEPT !.at = "post"]
            /\ UNCHANGED reviewError
    /\ UNCHANGED <<knowledge, recallFiles, recallPc, semanticResults, conceptResults,
                   fileHistoryResults, learningCtx, learningPrompt, storeWrites>>
    /\ UNCHANGED notRecallVars

\* steps 14 to 16: postReview, collectReviewMetrics, storeReviewInteractions,
\* which starts vectorStore(interaction) and graphStore(interaction) without
\* awaiting them, and the return
PostAndStore(githubOk) ==
    /\ reviewPc.at = "post"
    /\ IF githubOk
       THEN /\ reviewPc' = [reviewPc EXCEPT !.at = "returned"]
            /\ storeWrites' = IF knowledge.enabled
                              THEN [vector |-> "started", graph |-> "started"]
                              ELSE storeWrites
            /\ UNCHANGED reviewError
       ELSE /\ Throws("github")
            /\ UNCHANGED storeWrites
    /\ UNCHANGED <<knowledge, recallFiles, recallPc, semanticResults, conceptResults,
                   fileHistoryResults, learningCtx, learningPrompt>>
    /\ UNCHANGED notRecallVars

\* what a started write settles to; a rejection ends in .catch(() => {})
SettledAs(call) ==
    IF call.threw THEN "rejected and swallowed"
    ELSE IF call.caught THEN "failed and logged"
    ELSE IF call.answered THEN "stored" ELSE "skipped"

\* vectorStore(interaction).catch(() => {})
VectorWriteSettles(ok) ==
    /\ storeWrites.vector = "started"
    /\ storeWrites' = [storeWrites EXCEPT
                          !.vector = SettledAs(StoreCall(knowledge.client, ok, <<>>))]
    /\ UNCHANGED <<knowledge, recallFiles, recallPc, semanticResults, conceptResults,
                   fileHistoryResults, learningCtx, learningPrompt, reviewPc,
                   reviewError>>
    /\ UNCHANGED notRecallVars

\* graphStore(interaction).catch(() => {})
GraphWriteSettles(ok) ==
    /\ storeWrites.graph = "started"
    /\ storeWrites' = [storeWrites EXCEPT
                          !.graph = SettledAs(StoreCall(knowledge.driver, ok, <<>>))]
    /\ UNCHANGED <<knowledge, recallFiles, recallPc, semanticResults, conceptResults,
                   fileHistoryResults, learningCtx, learningPrompt, reviewPc,
                   reviewError>>
    /\ UNCHANGED notRecallVars

InitRecall ==
    /\ knowledge \in KnowledgeStates
    /\ recallFiles \in RecallFileLists
    /\ recallPc = NotRecalling
    /\ semanticResults = <<>>
    /\ conceptResults = <<>>
    /\ fileHistoryResults = <<>>
    /\ learningCtx = NoContext
    /\ learningPrompt = NoPrompt
    /\ reviewPc = [NotReviewing EXCEPT !.at = "start"]
    /\ reviewError = "none"
    /\ storeWrites = NoWrites
    /\ ChunkerIdle
    /\ GateIdle
    /\ FeedbackIdle
    /\ FilterIdle
    /\ ConceptIdle
    /\ ToolLoopIdle
    /\ LaterIdle

\* the steps of orchestrateReview itself
ReviewStep ==
    \/ BeginReview
    \/ \E ok \in BOOLEAN : \E results \in Windows(knowledge.points, SemanticLimit) :
          SearchSimilar(ok, results)
    \/ \E ok \in BOOLEAN : \E results \in TopOf(knowledge.interactions, ConceptLimit) :
          GetRelatedInteractions(ok, results)
    \/ \E ok \in BOOLEAN : \E results \in TopOf(knowledge.interactions, HistoryLimit) :
          GetFileHistory(ok, results)
    \/ ReturnLearningContext
    \/ \E inline \in 0..MaxInlineFindings : ReviewAndFilter(inline)
    \/ \E relatedOk \in BOOLEAN, historyOk \in BOOLEAN, hasContext \in BOOLEAN :
          EnrichFinding(relatedOk, historyOk, hasContext)
    \/ \E gated \in BOOLEAN, insertOk \in BOOLEAN : CheckReviewGate(gated, insertOk)
    \/ \E githubOk \in BOOLEAN : PostAndStore(githubOk)

NextRecall ==
    \/ ReviewStep
    \/ \E ok \in BOOLEAN : VectorWriteSettles(ok)
    \/ \E ok \in BOOLEAN : GraphWriteSettles(ok)

SpecRecall == InitRecall /\ [][NextRecall]_vars

(***************************************************************************)
(* Recall claims                                                           *)
(***************************************************************************)
\* the (filePath, first 50 characters of the comment) pair of an entry
KeyPair(p) == <<p.filePath, CommentSlice(p.reviewComment, KeyBlocks)>>

Returned == learningCtx.approvedPatterns \o learningCtx.rejectedPatterns

\* C16: what retrieveLearningContext returns: every approved entry has
\* approved = true, every rejected entry approved = false (so an entry with
\* approved = null is in neither list), each list has at most 5 entries, and
\* no two returned entries have the same file path and the same first 50
\* characters of the comment.
C16_RecallOutputWellFormed ==
    learningCtx.done =>
        /\ \A i \in DOMAIN learningCtx.approvedPatterns :
              learningCtx.approvedPatterns[i].approved = "true"
        /\ \A i \in DOMAIN learningCtx.rejectedPatterns :
              learningCtx.rejectedPatterns[i].approved = "false"
        /\ \A i \in DOMAIN Returned : Returned[i].approved # "null"
        /\ Len(learningCtx.approvedPatterns) <= 5
        /\ Len(learningCtx.rejectedPatterns) <= 5
        /\ \A i, j \in DOMAIN Returned :
              i # j => KeyPair(Returned[i]) # KeyPair(Returned[j])

\* a context returned from results that held a sixth approved entry, with a
\* rejected entry beside the five kept
C16_Witness ==
    /\ learningCtx.done
    /\ learningCtx.found.approved > 5
    /\ Len(learningCtx.approvedPatterns) = 5
    /\ Len(learningCtx.rejectedPatterns) > 0

\* C18: formatLearningContext returns undefined exactly when approvedPatterns
\* and rejectedPatterns are both empty, and a string that is not empty in
\* every other case; a recall whose store calls gave no rows leaves the prompt
\* undefined.
C18_PromptUndefinedIffNoPatterns ==
    learningPrompt.formatted =>
        /\ ~learningPrompt.defined <=>
              (Len(learningCtx.approvedPatterns) = 0 /\ Len(learningCtx.rejectedPatterns) = 0)
        /\ learningPrompt.defined => JoinedLength(learningPrompt.parts) > 0
        /\ ~recallPc.rows => ~learningPrompt.defined

\* a prompt made from rejected patterns alone
C18_Witness ==
    /\ learningPrompt.formatted
    /\ learningPrompt.defined
    /\ Len(learningCtx.approvedPatterns) = 0
    /\ Len(learningCtx.rejectedPatterns) > 0

\* a recall that got rows, all of them unresolved, and made no prompt
C18_WitnessUndefined ==
    /\ learningPrompt.formatted
    /\ ~learningPrompt.defined
    /\ recallPc.rows

\* orchestrateReview has returned, or thrown
ReviewEnded == reviewPc.at \in {"held", "returned", "threw"}

\* orchestrateReview is at an await whose promise settles whatever the stores
\* do: the position is one a step leaves, with every outcome of the store call
AwaitSettles ==
    \/ reviewPc.at \in {"start", "llm", "post"}
    \/ /\ reviewPc.at = "recall"
       /\ recallPc.at \in {"semantic", "concept", "history"}
       /\ recallPc.at = "history" => recallPc.file >= 1
    \/ /\ reviewPc.at = "enrich"
       /\ reviewPc.enriched <= reviewPc.inline

\* C17: no failure of a vector-store or graph-store call fails or blocks a
\* review: orchestrateReview never throws because of a store call, it always
\* has a next step until it has returned or thrown, a recall whose store calls
\* all failed (or whose stores were never initialised) gives the empty
\* context and no prompt, and a failed interaction write after posting
\* leaves the review returned.
C17_StoreFailuresNeverFailAReview ==
    /\ reviewError # "store"
    /\ reviewPc.at = "threw" => reviewError \in {"gate", "github"}
    /\ ~ReviewEnded => AwaitSettles
    /\ (learningCtx.done /\ ~recallPc.answered) =>
          /\ learningCtx.approvedPatterns = <<>>
          /\ learningCtx.rejectedPatterns = <<>>
          /\ ~learningPrompt.defined
    /\ (storeWrites.vector # "none" \/ storeWrites.graph # "none") =>
          reviewPc.at = "returned"

\* a review with learning on and both stores initialised, in which every
\* store call failed: recall, enrichment and both writes; it was posted and
\* has returned
C17_Witness ==
    /\ knowledge.enabled /\ knowledge.client /\ knowledge.driver
    /\ learningCtx.done
    /\ ~recallPc.answered
    /\ reviewPc.inline > 0
    /\ reviewPc.enriched = reviewPc.inline
    /\ reviewPc.withContext = 0
    /\ reviewPc.at = "returned"
    /\ storeWrites = [vector |-> "failed and logged", graph |-> "failed and logged"]

\* the same with stores that were never initialised
C17_WitnessNeverInitialised ==
    /\ knowledge.enabled /\ ~knowledge.client /\ ~knowledge.driver
    /\ learningCtx.done
    /\ reviewPc.at = "returned"
    /\ storeWrites = [vector |-> "skipped", graph |-> "skipped"]

(***************************************************************************)
(* Concept extraction: src/learning/concept-extractor.ts                   *)
(*                                                                         *)
(* A filename is its directory prefix and the pieces of its basename       *)
(* between dots, so ".eslintrc" is <<"", "eslintrc">>.  A review comment   *)
(* is the raw string, the string trimmed, and the fallback patterns that   *)
(* match it.  An LLM reply is a thrown error, text that holds no JSON      *)
(* array, or the items of the array it holds.                              *)
(***************************************************************************)
MaxConceptFiles == 8

\* return concepts.slice(0, 15)
ConceptCap == 15

\* .slice(0, 7) in parseConceptArray
LlmConceptCap == 7

\* if (reviewComment.trim().length > 10)
MinCommentLength == 10

\* String.prototype.toLowerCase, on the strings of the model
ToLowerCase(str) ==
    CASE str = "Index" -> "index"
      [] str = "README" -> "readme"
      [] str = " Error-Handling " -> " error-handling "
      [] OTHER -> str

\* String.prototype.trim, on the strings of the model
Trim(str) ==
    CASE str = " error-handling " -> "error-handling"
      [] str = "   nit      " -> "nit"
      [] OTHER -> str

RECURSIVE JoinWithDots(_)
JoinWithDots(pieces) ==
    IF Len(pieces) = 1 THEN pieces[1]
    ELSE pieces[1] \o "." \o JoinWithDots(Tail(pieces))

RECURSIVE LowerPieces(_)
LowerPieces(pieces) ==
    IF pieces = <<>> THEN <<>>
    ELSE <<ToLowerCase(Head(pieces))>> \o LowerPieces(Tail(pieces))

\* file.filename
Filename(file) == file.dir \o JoinWithDots(file.base)

\* a stem cut at the last dot, as getFileHistory cuts it
StemBeforeLastDot(file) ==
    IF Len(file.base) > 1
    THEN JoinWithDots(LowerPieces(SubSeq(file.base, 1, Len(file.base) - 1)))
    ELSE JoinWithDots(LowerPieces(file.base))

\* extractFileStem: const dotIndex = basename.indexOf(".");
\* dotIndex > 0 ? basename.slice(0, dotIndex).toLowerCase() : basename.toLowerCase()
extractFileStem(file) ==
    LET dotIndex == IF Len(file.base) = 1 THEN -1 ELSE Len(file.base[1])
    IN  IF dotIndex > 0 THEN ToLowerCase(file.base[1])
        ELSE JoinWithDots(LowerPieces(file.base))

RECURSIVE FileConcepts(_)
\* for (const file of files) { push file:, push stem: if stem.length > 2 }
FileConcepts(fileList) ==
    IF fileList = <<>> THEN <<>>
    ELSE LET file == Head(fileList)
             stem == extractFileStem(file)
         IN  <<"file:" \o Filename(file)>>
             \o (IF Len(stem) > 2 THEN <<"stem:" \o stem>> ELSE <<>>)
             \o FileConcepts(Tail(fileList))

RECURSIVE CleanItems(_)
\* arr.filter(typeof c === "string").map(c => c.toLowerCase().trim())
\*    .filter(c => c.length > 2 && c.length < 50)
CleanItems(items) ==
    IF items = <<>> THEN <<>>
    ELSE LET item == Head(items)
             c == Trim(ToLowerCase(item.value))
         IN  (IF item.isString /\ Len(c) > 2 /\ Len(c) < 50 THEN <<c>> ELSE <<>>)
             \o CleanItems(Tail(items))

\* parseConceptArray: the cleaned array, or [] when the text holds none
parseConceptArray(reply) ==
    IF reply.outcome = "array"
    THEN SliceHead(CleanItems(reply.items), LlmConceptCap)
    ELSE <<>>

\* the tags of fallbackExtract in the order of its ten tests
FallbackTags ==
    << "null-safety", "error-handling", "security", "performance", "testing",
       "type-safety", "async-patterns", "naming-convention", "code-structure",
       "input-validation" >>

RECURSIVE MatchedTags(_, _)
MatchedTags(tags, matches) ==
    IF tags = <<>> THEN <<>>
    ELSE (IF Head(tags) \in matches THEN <<Head(tags)>> ELSE <<>>)
         \o MatchedTags(Tail(tags), matches)

\* fallbackExtract: return concepts.length > 0 ? concepts : ["general-review"]
fallbackExtract(text) ==
    LET concepts == MatchedTags(FallbackTags, text.matches)
    IN  IF Len(concepts) > 0 THEN concepts ELSE <<"general-review">>

\* extractConcepts
extractConcepts(fileList, text, reply) ==
    SliceHead(FileConcepts(fileList)
              \o (IF Len(text.trimmed) > MinCommentLength
                  THEN IF reply.outcome = "throws" THEN fallbackExtract(text)
                       ELSE parseConceptArray(reply)
                  ELSE <<>>),
              ConceptCap)

(***************************************************************************)
(* Inputs                                                                  *)
(***************************************************************************)
File(dir, base) == [dir |-> dir, base |-> base]

\* the files of a pull request, in the order GitHub lists them
ChangedFiles ==
    << File("src/", <<"db", "ts">>),
       File("lib/", <<"ab", "config", "ts">>),
       File("src/auth/", <<"login", "ts">>),
       File("src/", <<"Index", "ts">>),
       File("", <<"README">>),
       File("", <<"", "eslintrc">>),
       File("src/auth/", <<"login", "test", "ts">>),
       File("src/api/", <<"routes", "ts">>),
       File("src/api/", <<"client", "ts">>),
       File("src/utils/", <<"logger", "ts">>) >>

ConceptFileLists ==
    { SubSeq(ChangedFiles, w[1], w[2]) :
        w \in { v \in (1..(Len(ChangedFiles) + 1)) \X (0..Len(ChangedFiles)) :
                  v[2] >= v[1] - 1 /\ v[2] - v[1] + 1 <= MaxConceptFiles } }

Text(raw, matches) == [raw |-> raw, trimmed |-> Trim(raw), matches |-> matches]

ConceptTexts ==
    { Text("ok", {}),
      Text("   nit      ", {}),
      Text("looks fine to me overall", {}),
      Text("the name is unclear here", {"naming-convention"}),
      Text("catch the error and check the input for null",
           {"null-safety", "error-handling", "input-validation"}) }

Str(value) == [isString |-> TRUE, value |-> value]

ConceptReplies ==
    { [outcome |-> "throws", items |-> <<>>],
      [outcome |-> "prose", items |-> <<>>],
      [outcome |-> "array", items |-> <<>>],
      [outcome |-> "array",
       items |-> <<Str("error-handling"), Str("null-safety"), Str("input-validation")>>],
      [outcome |-> "array",
       items |-> <<Str(" Error-Handling "), [isString |-> FALSE, value |-> "42"],
                   Str("db"), Str("null-safety")>>],
      [outcome |-> "array",
       items |-> <<Str("api-design"), Str("caching-strategy"), Str("dead-code"),
                   Str("magic-number"), Str("logging"), Str("authentication"),
                   Str("authorization"), Str("database-query"), Str("state-management")>>] }

\* await extractConcepts(files, reviewComment)
ExtractConceptsCall ==
    /\ ~conceptsOut.done
    /\ conceptsOut' = [done |-> TRUE,
                       tags |-> extractConcepts(conceptFiles, conceptText, conceptReply)]
    /\ UNCHANGED <<conceptFiles, conceptText, conceptReply>>
    /\ UNCHANGED notConceptVars

InitConcepts ==
    /\ conceptFiles \in ConceptFileLists
    /\ conceptText \in ConceptTexts
    /\ conceptReply \in ConceptReplies
    /\ conceptsOut = NoConcepts
    /\ ChunkerIdle
    /\ GateIdle
    /\ FeedbackIdle
    /\ FilterIdle
    /\ RecallIdle
    /\ ToolLoopIdle
    /\ LaterIdle

NextConcepts == ExtractConceptsCall

SpecConcepts == InitConcepts /\ [][NextConcepts]_vars

(***************************************************************************)
(* Concept claims                                                          *)
(***************************************************************************)
\* C19: extractConcepts returns at most 15 tags and, for every input file,
\* the result includes file:<path> and, when the basename before its
\* extension is longer than 2 characters, stem:<name>, for any number of
\* files and any text.
C19_EveryFileTaggedWithinCap ==
    conceptsOut.done =>
        /\ Len(conceptsOut.tags) <= 15
        /\ \A i \in DOMAIN conceptFiles :
              /\ ("file:" \o Filename(conceptFiles[i])) \in Range(conceptsOut.tags)
              /\ Len(StemBeforeLastDot(conceptFiles[i])) > 2 =>
                    ("stem:" \o StemBeforeLastDot(conceptFiles[i])) \in Range(conceptsOut.tags)

\* C19 with the stem read as extractFileStem cuts it, at the first dot: the
\* claim about the files' tags then fails on the cap alone
C19_EveryFileTaggedFirstDot ==
    conceptsOut.done =>
        /\ Len(conceptsOut.tags) <= 15
        /\ \A i \in DOMAIN conceptFiles :
              /\ ("file:" \o Filename(conceptFiles[i])) \in Range(conceptsOut.tags)
              /\ Len(extractFileStem(conceptFiles[i])) > 2 =>
                    ("stem:" \o extractFileStem(conceptFiles[i])) \in Range(conceptsOut.tags)

(***************************************************************************)
(* The reviewer's tool-use loop, one chunk after another.                  *)
(*                                                                         *)
(* The loop follows section 4.4 of the specification: AwaitModel, then     *)
(* ExecuteTools and AwaitModel again any number of times, then Submitted   *)
(* or Failed.  "Calling" is AwaitModel with the request in flight.  The    *)
(* lookups are executeToolCall of src/llm/tools.ts; the ceiling is         *)
(* config.llm.maxToolIterations of src/config/env.ts.                      *)
(***************************************************************************)
MaxLoopChunks == 2

MaxLoopBudget == 20

MaxTurnTools == 2

MaxResultTokens == 2

\* DEFAULT_CONFIG.llm.maxToolIterations with one iteration more
MaxToolIterationsPlusOne == 10 + 1

\* DEFAULT_CONFIG.llm.maxToolIterations
maxToolIterations == 10

\* withRetry: maxAttempts
MaxAttempts == 2

\* the share of the budget, in percent, past which only submit_review is offered
BudgetCeilingPercent == 85

\* JSON.stringify({ error: "Tool execution failed, proceed without this data" })
ErrorResultTokens == 1

\* executeToolCall: the tokens of the string it returns; a throw inside is
\* caught and the fixed error string returned
executeToolCall(ok, resultTokens) == IF ok THEN resultTokens ELSE ErrorResultTokens

LoopInputs ==
    [chunks : 1..MaxLoopChunks, budget : {MaxLoopBudget}, promptTokens : {5, MaxLoopBudget - 2}]

StartOfLoop(chunk) ==
    [chunk |-> chunk, at |-> "AwaitModel", iteration |-> 0, attempt |-> 0,
     constrained |-> FALSE, used |-> loopInput.promptTokens, pending |-> 0,
     result |-> "none"]

LoopEnded == toolLoop.at \in {"Submitted", "Failed"}

\* the head of an iteration: the context is estimated and the model is called,
\* with submit_review alone when the estimate is past 85% of the budget or
\* this is the last iteration allowed
CallModel ==
    /\ toolLoop.at = "AwaitModel"
    /\ toolLoop.iteration < maxToolIterations
    /\ toolLoop' = [toolLoop EXCEPT
          !.at = "Calling",
          !.iteration = @ + 1,
          !.attempt = 1,
          !.constrained =
              \/ toolLoop.used * 100 > BudgetCeilingPercent * loopInput.budget
              \/ toolLoop.iteration + 1 = maxToolIterations]
    /\ UNCHANGED <<loopInput, loopOutcomes>>
    /\ UNCHANGED notToolVars

\* the iterations are used up: the chunk is Failed
Exhausted ==
    /\ toolLoop.at = "AwaitModel"
    /\ toolLoop.iteration >= maxToolIterations
    /\ toolLoop' = [toolLoop EXCEPT !.at = "Failed", !.result = "iterations used up"]
    /\ UNCHANGED <<loopInput, loopOutcomes>>
    /\ UNCHANGED notToolVars

\* the request fails: it is tried again once on a 500 or an overload error,
\* and the chunk is Failed otherwise
ModelCallFails(retryable) ==
    /\ toolLoop.at = "Calling"
    /\ toolLoop' = IF retryable /\ toolLoop.attempt < MaxAttempts
                   THEN [toolLoop EXCEPT !.attempt = @ + 1]
                   ELSE [toolLoop EXCEPT !.at = "Failed", !.result = "model call failed"]
    /\ UNCHANGED <<loopInput, loopOutcomes>>
    /\ UNCHANGED notToolVars

\* the model calls submit_review: the payload is validated, and a payload
\* that fails gives the summary that can be extracted and no findings
ModelSubmits(valid) ==
    /\ toolLoop.at = "Calling"
    /\ toolLoop' = [toolLoop EXCEPT !.at = "Submitted",
                       !.result = IF valid THEN "findings" ELSE "summary without findings"]
    /\ UNCHANGED <<loopInput, loopOutcomes>>
    /\ UNCHANGED notToolVars

\* the model calls no tool at all: an empty review, and no further iteration
ModelCallsNothing ==
    /\ toolLoop.at = "Calling"
    /\ toolLoop' = [toolLoop EXCEPT !.at = "Submitted", !.result = "empty review"]
    /\ UNCHANGED <<loopInput, loopOutcomes>>
    /\ UNCHANGED notToolVars

\* the model calls lookup tools, whatever it was offered
ModelCallsLookups(tools) ==
    /\ toolLoop.at = "Calling"
    /\ toolLoop' = [toolLoop EXCEPT !.at = "ExecuteTools", !.pending = tools]
    /\ UNCHANGED <<loopInput, loopOutcomes>>
    /\ UNCHANGED notToolVars

\* one lookup is executed and its result appended to the conversation
ExecuteTool(ok, resultTokens) ==
    /\ toolLoop.at = "ExecuteTools"
    /\ toolLoop.pending > 0
    /\ toolLoop' = [toolLoop EXCEPT
          !.pending = @ - 1,
          !.used = @ + executeToolCall(ok, resultTokens)]
    /\ UNCHANGED <<loopInput, loopOutcomes>>
    /\ UNCHANGED notToolVars

\* all lookups of the turn are executed: the next iteration
ContinueLoop ==
    /\ toolLoop.at = "ExecuteTools"
    /\ toolLoop.pending = 0
    /\ toolLoop' = [toolLoop EXCEPT !.at = "AwaitModel"]
    /\ UNCHANGED <<loopInput, loopOutcomes>>
    /\ UNCHANGED notToolVars

\* the next chunk's loop starts afresh
NextChunk ==
    /\ LoopEnded
    /\ toolLoop.chunk < loopInput.chunks
    /\ loopOutcomes' = Append(loopOutcomes, toolLoop.at)
    /\ toolLoop' = StartOfLoop(toolLoop.chunk + 1)
    /\ UNCHANGED loopInput
    /\ UNCHANGED notToolVars

InitToolLoop ==
    /\ loopInput \in LoopInputs
    /\ toolLoop = StartOfLoop(1)
    /\ loopOutcomes = <<>>
    /\ ChunkerIdle
    /\ GateIdle
    /\ FeedbackIdle
    /\ FilterIdle
    /\ RecallIdle
    /\ ConceptIdle
    /\ LaterIdle

NextToolLoop ==
    \/ CallModel
    \/ Exhausted
    \/ \E retryable \in BOOLEAN : ModelCallFails(retryable)
    \/ \E valid \in BOOLEAN : ModelSubmits(valid)
    \/ ModelCallsNothing
    \/ \E tools \in 1..MaxTurnTools : ModelCallsLookups(tools)
    \/ \E ok \in BOOLEAN, resultTokens \in 1..MaxResultTokens : ExecuteTool(ok, resultTokens)
    \/ ContinueLoop
    \/ NextChunk

SpecToolLoop == InitToolLoop /\ [][NextToolLoop]_vars

\* the event loop resumes the reviewer whenever the request or the lookup it
\* awaits has settled
SpecToolLoopFair == SpecToolLoop /\ WF_vars(NextToolLoop)

(***************************************************************************)
(* Tool-loop claims                                                        *)
(***************************************************************************)
\* the loop of the chunk under review has made at most ten iterations, and
\* the loops of the chunks before it ended in Submitted or Failed
WithinCeiling ==
    /\ toolLoop.iteration <= 10
    /\ \A i \in DOMAIN loopOutcomes : loopOutcomes[i] \in {"Submitted", "Failed"}

MaxLlmChunks == 2

\* the most files a chunk of the input holds
MaxChunkFiles == 2

\* the statuses of the errors client.messages.create rejects with: a bad
\* request, a rate limit, two server errors and an overload
ErrorStatuses == {400, 429, 500, 503, 529}

\* what one client.messages.create comes to
Resolved(parses) == [ok |-> TRUE, status |-> 200, parses |-> parses]

Rejected(status) == [ok |-> FALSE, status |-> status, parses |-> FALSE]

\* withRetry's default retryOn, () => true
RetryOnAnyError(err) == TRUE

\* retryOn: (err) => err?.status === 529 || err?.status === 500
retryOn(err) == err.status = 529 \/ err.status = 500

\* withRetry's catch: if (attempt === maxAttempts || !retryOn(error)) throw error
withRetryThrows(attempt, err) == attempt = MaxAttempts \/ ~retryOn(err)

\* reviewFileChunk's catch with the error thrown on to runFileAnalysis
ChunkFailureRethrown == "throw"

\* reviewFileChunk's catch: log.error, return null
ChunkFailure == "null"

\* what reviewFileChunk returns for a response: one FileAnalysis per file of
\* the chunk; a parsed response carries one comment per file of the chunk
\* (a comment on a path outside the chunk is filtered out), an unparseable
\* one gives an empty summary and no comments
FileAnalyses(chunk, size, parses) ==
    [j \in 1..size |->
        [chunk |-> chunk, file |-> j, summary |-> parses,
         comments |-> IF parses THEN 1 ELSE 0]]

RECURSIVE CommentsOf(_)
CommentsOf(analyses) ==
    IF analyses = <<>> THEN 0 ELSE Head(analyses).comments + CommentsOf(Tail(analyses))

FilesOf(input) == SumSeq(input.chunks)

StartOfCall(ph, chunk) ==
    [at |-> "create", phase |-> ph, chunk |-> chunk, attempt |-> 1, log |-> <<>>]

Returning == [at |-> "returned", phase |-> 0, chunk |-> 0, attempt |-> 0, log |-> <<>>]

\* runFileAnalysis after the chunk's reviewFileChunk has returned: the next
\* chunk, or back in reviewWithLLM phase 2 when more than one file changed
\* and filesToSend is not empty, or the return
AfterChunk(chunk, analyses) ==
    IF chunk < Len(llmInput.chunks)
    THEN [pc |-> StartOfCall(1, chunk + 1), ret |-> NoReturn]
    ELSE IF FilesOf(llmInput) > 1 /\ llmInput.sendable
    THEN [pc |-> StartOfCall(2, 0), ret |-> NoReturn]
    ELSE [pc |-> Returning,
          ret |-> [done |-> TRUE, threw |-> FALSE, comments |-> CommentsOf(analyses),
                   cross |-> IF FilesOf(llmInput) > 1 THEN "null" ELSE "none",
                   crossAttempts |-> 0]]

\* reviewWithLLM's return after runCrossFileAnalysis
AfterCross(result, comments, attempts) ==
    [done |-> TRUE, threw |-> FALSE, comments |-> CommentsOf(llmAnalyses) + comments,
     cross |-> result, crossAttempts |-> attempts]

LlmChunkLists ==
    UNION {[1..n -> 1..MaxChunkFiles] : n \in 1..MaxLlmChunks}

LlmInputs == [chunks : LlmChunkLists, sendable : BOOLEAN]

\* client.messages.create resolves: the text is parsed and the analyses of
\* the chunk are pushed, or the cross-file result is returned
CreateResolves(parses) ==
    /\ llmPc.at = "create"
    /\ IF llmPc.phase = 1
       THEN LET analyses == llmAnalyses \o
                    FileAnalyses(llmPc.chunk, llmInput.chunks[llmPc.chunk], parses)
                after == AfterChunk(llmPc.chunk, analyses)
            IN  /\ llmAnalyses' = analyses
                /\ llmDone' = Append(llmDone,
                       [attempts |-> llmPc.attempt, last |-> Resolved(parses)])
                /\ llmPc' = after.pc
                /\ llmReturn' = after.ret
       ELSE /\ llmReturn' = AfterCross("result", IF parses THEN 1 ELSE 0, llmPc.attempt)
            /\ llmPc' = Returning
            /\ UNCHANGED <<llmAnalyses, llmDone>>
    /\ UNCHANGED llmInput
    /\ UNCHANGED notReviewerVars

\* client.messages.create rejects: withRetry throws the error on or waits for
\* the next attempt; an error thrown on is caught by reviewFileChunk or by
\* runCrossFileAnalysis, which return null
CreateRejects(status) ==
    /\ llmPc.at = "create"
    /\ IF ~withRetryThrows(llmPc.attempt, Rejected(status))
       THEN /\ llmPc' = [llmPc EXCEPT !.at = "backoff",
                                     !.log = Append(@, Rejected(status))]
            /\ UNCHANGED <<llmAnalyses, llmDone, llmReturn>>
       ELSE IF llmPc.phase = 1
       THEN IF ChunkFailure = "null"
            THEN LET after == AfterChunk(llmPc.chunk, llmAnalyses)
                 IN  /\ llmDone' = Append(llmDone,
                            [attempts |-> llmPc.attempt, last |-> Rejected(status)])
                     /\ llmPc' = after.pc
                     /\ llmReturn' = after.ret
                     /\ UNCHANGED llmAnalyses
            ELSE /\ llmPc' = [llmPc EXCEPT !.at = "threw"]
                 /\ llmReturn' = [NoReturn EXCEPT !.threw = TRUE]
                 /\ UNCHANGED <<llmAnalyses, llmDone>>
       ELSE /\ llmReturn' = AfterCross("null", 0, llmPc.attempt)
            /\ llmPc' = Returning
            /\ UNCHANGED <<llmAnalyses, llmDone>>
    /\ UNCHANGED llmInput
    /\ UNCHANGED notReviewerVars

\* the delay of withRetry has passed: the next attempt
BackoffEnds ==
    /\ llmPc.at = "backoff"
    /\ llmPc' = [llmPc EXCEPT !.at = "create", !.attempt = @ + 1]
    /\ UNCHANGED <<llmInput, llmAnalyses, llmDone, llmReturn>>
    /\ UNCHANGED notReviewerVars

InitReviewer ==
    /\ llmInput \in LlmInputs
    /\ llmPc = StartOfCall(1, 1)
    /\ llmDone = <<>>
    /\ llmAnalyses = <<>>
    /\ llmReturn = NoReturn
    /\ EarlierIdle
    /\ ParserIdle
    /\ SyncIdle
    /\ HookIdle
    /\ LastIdle

NextReviewer ==
    \/ \E parses \in BOOLEAN : CreateResolves(parses)
    \/ \E status \in ErrorStatuses : CreateRejects(status)
    \/ BackoffEnds

SpecReviewer == InitReviewer /\ [][NextReviewer]_vars

(***************************************************************************)
(* Reviewer claims                                                         *)
(***************************************************************************)
\* the analyses runFileAnalysis holds for one chunk
AnalysesOfChunk(c) == {i \in DOMAIN llmAnalyses : llmAnalyses[i].chunk = c}

\* C21: each model call for a chunk is attempted at most 2 times, a second
\* attempt is made only after an error of status 500 or 529, any other error
\* ends the call on the attempt it came on, and a chunk whose attempts are
\* used up yields no findings and nothing is raised to the caller.
C21_AtMostTwoAttemptsOnServerErrors ==
    /\ llmPc.attempt <= 2
    /\ llmReturn.crossAttempts <= 2
    /\ \A i \in DOMAIN llmPc.log : llmPc.log[i].status \in {500, 529}
    /\ llmPc.attempt = 2 => Len(llmPc.log) = 1
    /\ llmPc.at = "backoff" => llmPc.attempt = 1 /\ Len(llmPc.log) = 1
    /\ \A c \in DOMAIN llmDone :
          /\ llmDone[c].attempts <= 2
          /\ ~llmDone[c].last.ok => AnalysesOfChunk(c) = {}
    /\ ~llmReturn.threw
    /\ llmPc.at # "threw"

\* a first chunk that gave 529 and then 500 and yields nothing, followed by a
\* chunk that failed with a 400 on its only attempt
C21_Witness ==
    /\ Len(llmDone) = 2
    /\ llmDone[1].attempts = 2
    /\ llmDone[1].last = Rejected(500)
    /\ llmDone[2].attempts = 1
    /\ llmDone[2].last = Rejected(400)
    /\ llmAnalyses = <<>>
    /\ llmReturn.done

\* the error classes the specification calls transient: rate limit,
\* server error and overload
TransientStatuses == {429, 500, 503, 529}

\* C22: a model call that fails with a transient error (rate limit, overload
\* or server error) is tried again before its chunk is marked failed with
\* empty findings; only a non-transient error fails the chunk without a retry.
C22_TransientErrorsAreRetried ==
    \A c \in DOMAIN llmDone :
        ~llmDone[c].last.ok /\ llmDone[c].attempts = 1 =>
            llmDone[c].last.status \notin TransientStatuses

RECURSIVE ExpectedComments(_)
\* one comment per file of every chunk whose last call resolved with a
\* response that parses, for the chunks 1..c
ExpectedComments(c) ==
    IF c = 0 THEN 0
    ELSE ExpectedComments(c - 1) +
         (IF llmDone[c].last.ok /\ llmDone[c].last.parses THEN llmInput.chunks[c] ELSE 0)

\* C23: when the review of one chunk fails terminally that chunk contributes
\* no findings, every other chunk of the review is still reviewed and its
\* findings are returned, and reviewWithLLM does not throw.
C23_ChunkFailureIsIsolated ==
    /\ llmPc.at # "threw"
    /\ ~llmReturn.threw
    /\ llmPc.at = "returned" =>
          /\ llmReturn.done
          /\ Len(llmDone) = Len(llmInput.chunks)
          /\ \A c \in DOMAIN llmDone :
                IF llmDone[c].last.ok
                THEN Cardinality(AnalysesOfChunk(c)) = llmInput.chunks[c]
                ELSE AnalysesOfChunk(c) = {}
          /\ llmReturn.comments >= ExpectedComments(Len(llmDone))
          /\ llmReturn.comments <= ExpectedComments(Len(llmDone)) + 1

\* the first of two chunks failed for good on a 400, the second, of two
\* files, was reviewed, and both its comments are in what reviewWithLLM returned
C23_Witness ==
    /\ llmPc.at = "returned"
    /\ Len(llmDone) = 2
    /\ llmDone[1].last = Rejected(400)
    /\ llmDone[2].last = Resolved(TRUE)
    /\ llmInput.chunks[2] = 2
    /\ llmReturn.comments = 2
    /\ llmReturn.cross = "null"

\* the last of two chunks failed after two attempts and the first was reviewed
C23_WitnessLastFails ==
    /\ llmPc.at = "returned"
    /\ Len(llmDone) = 2
    /\ llmDone[1].last = Resolved(TRUE)
    /\ llmDone[2].last = Rejected(529)
    /\ llmDone[2].attempts = 2
    /\ llmReturn.comments >= 1

(***************************************************************************)
(* parsePatch (src/utils/diff-parser.ts).  A line of the patch is the      *)
(* sequence of its characters; the patch is the sequence of lines that     *)
(* patch.split("\n") gives.                                                *)
(***************************************************************************)
MaxPatchLines == 4

\* number | null
Null == [isNull |-> TRUE, n |-> 0]

Num(n) == [isNull |-> FALSE, n |-> n]

DigitChars == <<"0", "1", "2", "3", "4", "5", "6", "7", "8", "9">>

\* \d
IsDigit(c) == \E d \in DOMAIN DigitChars : DigitChars[d] = c

\* \s, for the characters a patch line holds
IsSpace(c) == c \in {" ", "\t"}

DigitValue(c) == (CHOOSE d \in DOMAIN DigitChars : DigitChars[d] = c) - 1

StartsWith(line, prefix) ==
    Len(line) >= Len(prefix) /\ SubSeq(line, 1, Len(prefix)) = prefix

\* line.slice(n)
Slice(line, n) == SubSeq(line, n + 1, Len(line))

RECURSIVE LeadingSpaces(_)
\* the length of the match of \s* at the head of the line
LeadingSpaces(line) ==
    IF line # <<>> /\ IsSpace(Head(line)) THEN 1 + LeadingSpaces(Tail(line)) ELSE 0

RECURSIVE LeadingDigits(_)
\* the length of the match of \d* at the head of the line
LeadingDigits(line) ==
    IF line # <<>> /\ IsDigit(Head(line)) THEN 1 + LeadingDigits(Tail(line)) ELSE 0

RECURSIVE parseInt(_)
\* parseInt(digits, 10) for a string of decimal digits
parseInt(digits) ==
    IF digits = <<>> THEN 0
    ELSE parseInt(SubSeq(digits, 1, Len(digits) - 1)) * 10 + DigitValue(digits[Len(digits)])

\* (\d+)(?:,(\d+))? at the head of the line: the two groups (the second is
\* <<>> when it did not take part) and what follows the match
RangeMatch(line) ==
    LET n == LeadingDigits(line)
        after == Slice(line, n)
        m == IF StartsWith(after, <<",">>) THEN LeadingDigits(Tail(after)) ELSE 0
    IN  [ok |-> n > 0,
         start |-> SubSeq(line, 1, n),
         count |-> IF m > 0 THEN SubSeq(Tail(after), 1, m) ELSE <<>>,
         rest |-> IF m > 0 THEN Slice(Tail(after), m) ELSE after]

NoMatch == [ok |-> FALSE, start |-> <<>>, count |-> <<>>, rest |-> <<>>]

\* line.match(/^@@\s+-(\d+)(?:,(\d+))?\s+\+(\d+)(?:,(\d+))?\s+@@/)
HunkMatch(line) ==
    LET a == Slice(line, 2)
        b == Slice(a, LeadingSpaces(a))
        old == IF StartsWith(b, <<"-">>) THEN RangeMatch(Tail(b)) ELSE NoMatch
        c == Slice(old.rest, LeadingSpaces(old.rest))
        new == IF StartsWith(c, <<"+">>) THEN RangeMatch(Tail(c)) ELSE NoMatch
        d == Slice(new.rest, LeadingSpaces(new.rest))
    IN  [matched |->
            /\ StartsWith(line, <<"@", "@">>)
            /\ LeadingSpaces(a) > 0
            /\ old.ok
            /\ LeadingSpaces(old.rest) > 0
            /\ new.ok
            /\ LeadingSpaces(new.rest) > 0
            /\ StartsWith(d, <<"@", "@">>),
         old |-> old,
         new |-> new]

\* hunkMatch[2] ?? "1"
OrOne(group) == IF group = <<>> THEN <<"1">> ELSE group

\* the hunk pushed for a header line
HunkOf(m) ==
    [oldStart |-> parseInt(m.old.start), oldCount |-> parseInt(OrOne(m.old.count)),
     newStart |-> parseInt(m.new.start), newCount |-> parseInt(OrOne(m.new.count)),
     lines |-> <<>>]

\* oldLine++ and newLine++ with every line pushed
LineAdvanceBoth(type) == [old |-> 1, new |-> 1]

\* oldLine++ after a del or context line, newLine++ after an add or context line
LineAdvance(type) ==
    [old |-> IF type \in {"del", "context"} THEN 1 ELSE 0,
     new |-> IF type \in {"add", "context"} THEN 1 ELSE 0]

\* the type a line of a hunk is pushed with, "skip" for a line that is not pushed
LineType(line) ==
    IF StartsWith(line, <<"+">>) THEN "add"
    ELSE IF StartsWith(line, <<"-">>) THEN "del"
    ELSE IF StartsWith(line, <<"\\">>) THEN "skip"
    ELSE "context"

DiffLine(type, line, oldLine, newLine) ==
    [type |-> type,
     content |-> IF type \in {"add", "del"} \/ StartsWith(line, <<" ">>)
                 THEN Slice(line, 1) ELSE line,
     oldLineNumber |-> IF type = "add" THEN Null ELSE Num(oldLine),
     newLineNumber |-> IF type = "del" THEN Null ELSE Num(newLine)]

\* one turn of the loop over the lines; currentHunk is the last hunk pushed
ParseLine(st, line) ==
    LET m == HunkMatch(line)
        type == LineType(line)
        last == Len(st.hunks)
    IN  IF m.matched
        THEN [st EXCEPT !.hunks = Append(@, HunkOf(m)),
                        !.oldLine = HunkOf(m).oldStart,
                        !.newLine = HunkOf(m).newStart]
        ELSE IF st.hunks = <<>> \/ type = "skip" THEN st
        ELSE [st EXCEPT
                !.hunks[last].lines = Append(@, DiffLine(type, line, st.oldLine, st.newLine)),
                !.oldLine = @ + LineAdvance(type).old,
                !.newLine = @ + LineAdvance(type).new,
                !.additions = @ + (IF type = "add" THEN 1 ELSE 0),
                !.deletions = @ + (IF type = "del" THEN 1 ELSE 0)]

RECURSIVE ParseLines(_, _)
ParseLines(st, lines) ==
    IF lines = <<>> THEN st ELSE ParseLines(ParseLine(st, Head(lines)), Tail(lines))

normalizeStatus(status) ==
    IF status \in {"added", "removed", "renamed"} THEN status ELSE "modified"

\* parsePatch; !patch holds for undefined and for the empty string, whose
\* split is the one empty line
parsePatch(patch) ==
    LET st == ParseLines([hunks |-> <<>>, additions |-> 0, deletions |-> 0,
                          oldLine |-> 0, newLine |-> 0],
                         IF ~patch.defined \/ patch.lines = << <<>> >>
                         THEN <<>> ELSE patch.lines)
    IN  [status |-> normalizeStatus(patch.status), hunks |-> st.hunks,
         additions |-> st.additions, deletions |-> st.deletions]

\* "@@ -1,2 +1,3 @@"
HeaderWithCounts ==
    <<"@", "@", " ", "-", "1", ",", "2", " ", "+", "1", ",", "3", " ", "@", "@">>

\* "@@ -5 +12 @@ f"
HeaderWithoutCounts ==
    <<"@", "@", " ", "-", "5", " ", "+", "1", "2", " ", "@", "@", " ", "f">>

\* "@@ -1, +1 @@", which the pattern does not match
HeaderMalformed ==
    <<"@", "@", " ", "-", "1", ",", " ", "+", "1", " ", "@", "@">>

\* the lines of the patches: the three headers, "+a", "-b", " c",
\* "\ No newline", the empty line and a line without its leading space
PatchLines ==
    {HeaderWithCounts, HeaderWithoutCounts, HeaderMalformed,
     <<"+", "a">>, <<"-", "b">>, <<" ", "c">>, <<"\\", " ", "N">>, <<>>, <<"d">>}

Patches ==
    {[defined |-> FALSE, lines |-> <<>>, status |-> "changed"]} \cup
    [defined : {TRUE},
     lines : UNION {[1..n -> PatchLines] : n \in 1..MaxPatchLines},
     status : {"added", "changed"}]

ParsePatchCall ==
    /\ ~parsedOut.done
    /\ parsedOut' = [done |-> TRUE, file |-> parsePatch(patchIn)]
    /\ UNCHANGED patchIn
    /\ UNCHANGED notParserVars

InitParser ==
    /\ patchIn \in Patches
    /\ parsedOut = NotParsed
    /\ EarlierIdle
    /\ ReviewerIdle
    /\ SyncIdle
    /\ HookIdle
    /\ LastIdle

NextParser == ParsePatchCall

SpecParser == InitParser /\ [][NextParser]_vars

(***************************************************************************)
(* Parser claims                                                           *)
(***************************************************************************)
\* the old and new start a header line states, read off the input
StatedStarts(line) ==
    IF line = HeaderWithCounts THEN <<[old |-> 1, new |-> 1]>>
    ELSE IF line = HeaderWithoutCounts THEN <<[old |-> 5, new |-> 12]>>
    ELSE <<>>

RECURSIVE StatedStartsOf(_)
StatedStartsOf(lines) ==
    IF lines = <<>> THEN <<>> ELSE StatedStarts(Head(lines)) \o StatedStartsOf(Tail(lines))

\* the numbers of one side that the lines of a hunk carry, in order
RECURSIVE NumbersOf(_, _)
NumbersOf(lines, side) ==
    IF lines = <<>> THEN <<>>
    ELSE LET number == IF side = "old" THEN Head(lines).oldLineNumber
                       ELSE Head(lines).newLineNumber
         IN  (IF number.isNull THEN <<>> ELSE <<number.n>>) \o NumbersOf(Tail(lines), side)

CountedFrom(numbers, start) == \A k \in DOMAIN numbers : numbers[k] = start + k - 1

RECURSIVE LinesOfType(_, _)
LinesOfType(hunks, type) ==
    IF hunks = <<>> THEN 0
    ELSE Cardinality({i \in DOMAIN Head(hunks).lines : Head(hunks).lines[i].type = type})
         + LinesOfType(Tail(hunks), type)

\* C24: in every hunk parsePatch produces, an add line has a new number and
\* a null old number, a del line an old number and a null new number, the
\* first old and new numbers are the header's oldStart and newStart, each
\* numbering goes up by exactly 1 over the lines that carry it, and the
\* file's additions and deletions are the counts of add and del lines.
C24_LineNumbersFollowTheHeader ==
    parsedOut.done =>
        LET file == parsedOut.file
            stated == StatedStartsOf(IF patchIn.lines = << <<>> >> THEN <<>> ELSE patchIn.lines)
        IN  /\ Len(file.hunks) = Len(stated)
            /\ \A h \in DOMAIN file.hunks :
                  /\ file.hunks[h].oldStart = stated[h].old
                  /\ file.hunks[h].newStart = stated[h].new
                  /\ \A i \in DOMAIN file.hunks[h].lines :
                        LET l == file.hunks[h].lines[i]
                        IN  /\ l.type = "add" => ~l.newLineNumber.isNull /\ l.oldLineNumber.isNull
                            /\ l.type = "del" => ~l.oldLineNumber.isNull /\ l.newLineNumber.isNull
                  /\ CountedFrom(NumbersOf(file.hunks[h].lines, "old"), file.hunks[h].oldStart)
                  /\ CountedFrom(NumbersOf(file.hunks[h].lines, "new"), file.hunks[h].newStart)
            /\ file.additions = LinesOfType(file.hunks, "add")
            /\ file.deletions = LinesOfType(file.hunks, "del")

\* "@@ -5 +12 @@ f", " c", "-b", "+a": the del line is old line 6 and the
\* add line new line 13
C24_Witness ==
    /\ parsedOut.done
    /\ patchIn.lines = <<HeaderWithoutCounts, <<" ", "c">>, <<"-", "b">>, <<"+", "a">>>>
    /\ Len(parsedOut.file.hunks) = 1
    /\ parsedOut.file.hunks[1].lines[2].oldLineNumber = Num(6)
    /\ parsedOut.file.hunks[1].lines[3].newLineNumber = Num(13)
    /\ parsedOut.file.additions = 1
    /\ parsedOut.file.deletions = 1

\* two hunks: the numbering of the second starts again at its own header
C24_WitnessTwoHunks ==
    /\ parsedOut.done
    /\ Len(parsedOut.file.hunks) = 2
    /\ parsedOut.file.hunks[1].oldStart = 1
    /\ Len(parsedOut.file.hunks[1].lines) = 1
    /\ parsedOut.file.hunks[2].oldStart = 5
    /\ Len(parsedOut.file.hunks[2].lines) = 1
    /\ parsedOut.file.hunks[2].lines[1].type = "context"
    /\ parsedOut.file.hunks[2].lines[1].newLineNumber = Num(12)

(***************************************************************************)
(* syncRepoHistory (src/learning/sync.ts) over one pull request, run again *)
(* and again; storeInteraction of the vector store (upsert by point id)    *)
(* and of the graph store (CREATE under the uniqueness constraint on       *)
(* Interaction.id that initGraphStore sets up).                            *)
(***************************************************************************)
MaxSyncRuns == 2

\* the repository every run is given
SyncRepo == "o/r"

Comment(kind, id, human) == [kind |-> kind, id |-> id, human |-> human]

\* the comments of the pull request: a review comment and an issue comment
\* that GitHub numbers alike, and a review comment of a bot
HistoricalComments ==
    <<Comment("review", "1", TRUE), Comment("review", "2", FALSE),
      Comment("issue", "1", TRUE)>>

RECURSIVE SubLists(_)
SubLists(list) ==
    IF list = <<>> THEN {<<>>}
    ELSE LET rest == SubLists(Tail(list))
         IN  rest \cup {<<Head(list)>> \o r : r \in rest}

RECURSIVE OfKind(_, _)
OfKind(list, kind) ==
    IF list = <<>> THEN <<>>
    ELSE (IF Head(list).kind = kind THEN <<Head(list)>> ELSE <<>>) \o OfKind(Tail(list), kind)

\* stableUUID of a key that leaves the comment kind out
StableKeyWithoutKind(repo, kind, id) == "sync-" \o repo \o "-" \o id

\* the key stableUUID is given: sync-${repo}-review-${comment.id} and
\* sync-${repo}-issue-${comment.id}
StableKey(repo, kind, id) == "sync-" \o repo \o "-" \o kind \o "-" \o id

\* stableUUID: the first 128 bits of the SHA-256 of the key, taken to differ
\* for the keys that differ
stableUUID(key) == "sha256:" \o key

\* isHumanComment
isHumanComment(comment) == comment.human

Interaction(comment) ==
    [id |-> stableUUID(StableKey(SyncRepo, comment.kind, comment.id)), comment |-> comment]

HasId(records, id) == \E i \in DOMAIN records : records[i].id = id

\* _client.upsert: the point of that id is replaced, or added
Upsert(points, point) ==
    IF HasId(points, point.id)
    THEN [i \in DOMAIN points |-> IF points[i].id = point.id THEN point ELSE points[i]]
    ELSE Append(points, point)

\* CREATE (i:Interaction {id: $id, ...}) with no constraint on the id
GraphCreateUnconstrained(nodes, node) == [ok |-> TRUE, nodes |-> Append(nodes, node)]

\* CREATE (i:Interaction {id: $id, ...}) under REQUIRE i.id IS UNIQUE: the
\* statement fails as a whole when a node of that id exists
GraphCreate(nodes, node) ==
    IF HasId(nodes, node.id)
    THEN [ok |-> FALSE, nodes |-> nodes]
    ELSE [ok |-> TRUE, nodes |-> Append(nodes, node)]

\* storeInteractionSafe: both storeInteraction calls, each a no-op without
\* its client and each catching the failure of its request
storeInteractionSafe(store, interaction, vectorOk, graphOk) ==
    LET vector == store.client /\ vectorOk
        created == GraphCreate(store.nodes, interaction)
        graph == store.driver /\ graphOk
    IN  [store EXCEPT
            !.points = IF vector THEN Upsert(@, interaction) ELSE @,
            !.upserts = IF vector THEN @ + 1 ELSE @,
            !.nodes = IF graph THEN created.nodes ELSE @,
            !.rejected = IF graph /\ ~created.ok THEN @ + 1 ELSE @,
            !.stored = [vector |-> IF vector THEN @.vector \cup {interaction.comment}
                                   ELSE @.vector,
                        graph |-> IF graph /\ created.ok
                                  THEN @.graph \cup {interaction.comment} ELSE @.graph]]

\* the loop over the comments listed goes on with the next comment, or on to
\* the issue comments, or syncRepoHistory ends
AfterComment(pc, todo) ==
    IF todo # <<>> THEN [pc EXCEPT !.todo = todo]
    ELSE IF pc.stage \in {"listReview", "review"}
    THEN [pc EXCEPT !.stage = "listIssue", !.todo = <<>>]
    ELSE [pc EXCEPT !.status = "done", !.stage = "none", !.todo = <<>>]

\* syncRepoHistory is called while no sync runs: _progress is reset, and the
\* pull requests are listed; a failure there ends the run in "error"
StartSync(listOk) ==
    /\ syncPc.status # "running"
    /\ syncPc.run < MaxSyncRuns
    /\ syncPc' = IF listOk
                 THEN [status |-> "running", run |-> syncPc.run + 1,
                       stage |-> "listReview", todo |-> <<>>]
                 ELSE [status |-> "error", run |-> syncPc.run + 1,
                       stage |-> "none", todo |-> <<>>]
    /\ UNCHANGED <<syncInput, syncStore>>
    /\ UNCHANGED notSyncVars

\* processPR lists the review comments, then the issue comments; a list
\* call that fails is logged and its comments are left out of this run
ListComments(ok) ==
    /\ syncPc.status = "running"
    /\ syncPc.stage \in {"listReview", "listIssue"}
    /\ LET kind == IF syncPc.stage = "listReview" THEN "review" ELSE "issue"
           listed == IF ok THEN OfKind(syncInput, kind) ELSE <<>>
       IN  syncPc' = IF listed = <<>> THEN AfterComment(syncPc, <<>>)
                     ELSE [syncPc EXCEPT !.stage = kind, !.todo = listed]
    /\ UNCHANGED <<syncInput, syncStore>>
    /\ UNCHANGED notSyncVars

\* one comment of the list: skipped unless a human wrote it, stored in both
\* stores otherwise
ProcessComment(vectorOk, graphOk) ==
    /\ syncPc.status = "running"
    /\ syncPc.stage \in {"review", "issue"}
    /\ syncPc.todo # <<>>
    /\ LET comment == Head(syncPc.todo)
       IN  /\ syncStore' = IF isHumanComment(comment)
                           THEN storeInteractionSafe(syncStore, Interaction(comment),
                                                     vectorOk, graphOk)
                           ELSE syncStore
           /\ syncPc' = AfterComment(syncPc, Tail(syncPc.todo))
    /\ UNCHANGED syncInput
    /\ UNCHANGED notSyncVars

InitSync ==
    /\ syncInput \in SubLists(HistoricalComments)
    /\ \E client \in BOOLEAN, driver \in BOOLEAN :
          syncStore = [NoStores EXCEPT !.client = client, !.driver = driver]
    /\ syncPc = NotSyncing
    /\ EarlierIdle
    /\ ReviewerIdle
    /\ ParserIdle
    /\ HookIdle
    /\ LastIdle

NextSync ==
    \/ \E listOk \in BOOLEAN : StartSync(listOk)
    \/ \E ok \in BOOLEAN : ListComments(ok)
    \/ \E vectorOk \in BOOLEAN, graphOk \in BOOLEAN : ProcessComment(vectorOk, graphOk)

SpecSync == InitSync /\ [][NextSync]_vars

(***************************************************************************)
(* Backfill claims                                                         *)
(***************************************************************************)
RecordsOf(records, comment) ==
    Cardinality({i \in DOMAIN records : records[i].comment = comment})

InputComments == {syncInput[i] : i \in DOMAIN syncInput}

\* C25: however many times syncRepoHistory runs over the same comments,
\* neither store holds more than one interaction of a comment, each holds
\* exactly one of every comment a store call of it has succeeded for, and
\* the records are of the human comments of the pull request, under ids that
\* differ from comment to comment.
C25_BackfillIsIdempotent ==
    /\ \A comment \in InputComments :
          /\ RecordsOf(syncStore.points, comment) <= 1
          /\ RecordsOf(syncStore.nodes, comment) <= 1
          /\ comment \in syncStore.stored.vector => RecordsOf(syncStore.points, comment) = 1
          /\ comment \in syncStore.stored.graph => RecordsOf(syncStore.nodes, comment) = 1
    /\ \A i \in DOMAIN syncStore.points :
          syncStore.points[i].comment \in InputComments /\ syncStore.points[i].comment.human
    /\ \A i \in DOMAIN syncStore.nodes :
          syncStore.nodes[i].comment \in InputComments /\ syncStore.nodes[i].comment.human
    /\ \A i, j \in DOMAIN syncStore.points :
          syncStore.points[i].id = syncStore.points[j].id => i = j
    /\ \A i, j \in DOMAIN syncStore.nodes :
          syncStore.nodes[i].id = syncStore.nodes[j].id => i = j

\* two runs over a review comment and an issue comment of the same number:
\* Qdrant took four upserts and Neo4j refused two CREATEs, and each store
\* holds one interaction of each comment
C25_Witness ==
    /\ syncPc.status = "done"
    /\ syncPc.run = 2
    /\ syncStore.upserts = 4
    /\ syncStore.rejected = 2
    /\ \A comment \in {Comment("review", "1", TRUE), Comment("issue", "1", TRUE)} :
          /\ RecordsOf(syncStore.points, comment) = 1
          /\ RecordsOf(syncStore.nodes, comment) = 1

(***************************************************************************)
(* The flag routes of the dashboard (src/dashboard/routes.ts): POST        *)
(* /api/flags/review-gate and /api/flags/sync await setFeatureFlag and     *)
(* answer ok; GET reads with getFeatureFlag.                               *)
(***************************************************************************)
\* setFeatureFlag: returns without a write when there is no pool, and logs
\* and returns when the query fails
FlagsAfterSet(key, enabled) ==
    IF pool = "open" /\ dbUp THEN UpsertFlag(flags, key, enabled) ELSE flags

OnOff(enabled) == IF enabled THEN "on" ELSE "off"

\* POST /api/flags/...: await setFeatureFlag(key, enabled); c.json({ok: true})
PostFlag(key, enabled) ==
    /\ phase = "serving"
    /\ flags' = FlagsAfterSet(key, enabled)
    /\ flagSetByCaller' = IF pool = "open" /\ dbUp THEN flagSetByCaller \cup {key}
                          ELSE flagSetByCaller
    /\ flagLog' = [flagLog EXCEPT !.lastSet[key] = OnOff(enabled)]
    /\ UNCHANGED <<phase, pool, dbUp, pending, now, runs, calls>>
    /\ UNCHANGED <<heldPosts, deliveries, prReviews>>
    /\ UNCHANGED notGateHookVars

\* GET /api/flags/...: const enabled = await getFeatureFlag(key)
GetFlag(key) ==
    /\ phase = "serving"
    /\ flagLog' = [flagLog EXCEPT !.read =
                      [key |-> key, value |-> getFeatureFlag(key).value,
                       after |-> flagLog.lastSet[key]]]
    /\ UNCHANGED gateVars
    /\ UNCHANGED <<heldPosts, deliveries, prReviews>>
    /\ UNCHANGED notGateHookVars

InitFlags == InitQueue

NextFlags ==
    \/ DbGoesDown
    \/ DbComesUp
    \/ \E key \in FlagKeys, enabled \in BOOLEAN : PostFlag(key, enabled)
    \/ \E key \in FlagKeys : GetFlag(key)

SpecFlags == InitFlags /\ [][NextFlags]_vars

\* C26: after setFeatureFlag(key, v) has returned and the route has answered
\* ok, getFeatureFlag(key) returns v until the next setFeatureFlag on that
\* key, for any sequence of toggles.
C26_FlagReadsTheLastWrite ==
    flagLog.read.after # "none" => flagLog.read.value = (flagLog.read.after = "on")

(***************************************************************************)
(* The approve and reject routes of the dashboard: POST                    *)
(* /api/pending-reviews/:id/approve and .../reject.  Each awaits           *)
(* resolvePendingReview (ResolveCall, ResolveUpdate) and goes on from the  *)
(* row it got back.                                                        *)
(***************************************************************************)
\* Variant of the route that goes on whatever came back
NotFoundNever(result) == FALSE

\* if (!row) return c.json({ ok: false, ... }, 404)
NotFound(result) == result = "null"

\* the rest of the route once resolvePendingReview has returned: 404 without
\* a row; the approve route posts the held review and answers 500 when that
\* fails, the reject route answers ok
AnswerRoute(c, githubOk) ==
    /\ calls[c].pc = "returned"
    /\ heldPosts[c] = "none"
    /\ heldPosts' = [heldPosts EXCEPT ![c] =
          IF NotFound(calls[c].result) THEN "notFound"
          ELSE IF calls[c].resolution = "rejected" THEN "rejected"
          ELSE IF githubOk THEN "posted" ELSE "failed"]
    /\ UNCHANGED gateVars
    /\ UNCHANGED <<flagLog, deliveries, prReviews>>
    /\ UNCHANGED notGateHookVars

InitDashboard == InitQueue

NextDashboard ==
    \/ DbGoesDown
    \/ DbComesUp
    \/ InsertPendingReview
    \/ \E c \in CallIds, id \in RowIds, resolution \in Resolutions :
          ResolveCall(c, id, resolution)
    \/ \E c \in CallIds : ResolveUpdate(c)
    \/ \E c \in CallIds, githubOk \in BOOLEAN : AnswerRoute(c, githubOk)

SpecDashboard == InitDashboard /\ [][NextDashboard]_vars

(***************************************************************************)
(* Dashboard claims                                                        *)
(***************************************************************************)
\* the requests whose route called postReview for the row
PostCalls(id) == {c \in CallIds : calls[c].id = id /\ heldPosts[c] \in {"posted", "failed"}}

\* C27: a held review is posted at most once, and only by an approve request
\* that won the resolution; a rejected review is never posted, and repeated
\* or concurrent approve and reject requests on one pending review make at
\* most one postReview call.
C27_HeldReviewPostedAtMostOnce ==
    \A id \in RowIds :
        /\ Cardinality(PostCalls(id)) <= 1
        /\ \A c \in PostCalls(id) :
              /\ id \in DOMAIN pending
              /\ calls[c].resolution = "approved"
              /\ pending[id].status = "approved"
              /\ pending[id].resolved_at = calls[c].at
        /\ id \in DOMAIN pending /\ pending[id].status = "rejected" => PostCalls(id) = {}

\* three requests on one row: an approve that won and posted, and an approve
\* and a reject that were answered 404
C27_Witness ==
    /\ \E c \in CallIds : heldPosts[c] = "posted" /\ calls[c].id = 1
    /\ \E c \in CallIds :
          heldPosts[c] = "notFound" /\ calls[c].id = 1 /\ calls[c].resolution = "approved"
          /\ calls[c].rowExisted
    /\ \E c \in CallIds :
          heldPosts[c] = "notFound" /\ calls[c].id = 1 /\ calls[c].resolution = "rejected"
          /\ calls[c].rowExisted

\* a reject that won, and an approve after it that posted nothing
C27_WitnessRejected ==
    /\ pending # <<>>
    /\ pending[1].status = "rejected"
    /\ \E c \in CallIds : heldPosts[c] = "rejected" /\ calls[c].id = 1
    /\ \E c \in CallIds :
          heldPosts[c] = "notFound" /\ calls[c].id = 1 /\ calls[c].resolution = "approved"

\* C28: a pending review has status 'approved' only if its review was
\* posted: when posting fails during approval the row is not left approved
\* with the review unposted.
C28_ApprovedOnlyIfPosted ==
    \A c \in CallIds :
        heldPosts[c] = "failed" => pending[calls[c].id].status # "approved"

(***************************************************************************)
(* Deliveries of pull_request webhooks for one pull request: each runs     *)
(* handlePullRequest (src/webhook/events.ts) and orchestrateReview, one    *)
(* step per await that touches the pull request or the gate.  PostgreSQL   *)
(* is up and initMetricsDb has seeded the flags; the gate is toggled with  *)
(* setFeatureFlag.                                                         *)
(***************************************************************************)
\* the head commits a delivery can name
HeadCommits == {1, 2}

REVIEWABLE_ACTIONS == {"opened", "synchronize", "reopened"}

WebhookActions == REVIEWABLE_ACTIONS \cup {"closed"}

\* r.body?.includes(BOT_REVIEW_TAG) && (r.state === "CHANGES_REQUESTED" ||
\* r.state === "COMMENTED")
IsOurs(review) ==
    review.tagged /\ review.state \in {"CHANGES_REQUESTED", "COMMENTED"}

\* octokit.pulls.dismissReview: GitHub dismisses a review that requests
\* changes and refuses one that only comments, which the catch logs
DismissReview(review) ==
    IF review.state = "CHANGES_REQUESTED" THEN [review EXCEPT !.state = "DISMISSED"]
    ELSE review

\* what dismissPreviousReviews leaves of the reviews of the pull request
dismissPreviousReviews(reviews) ==
    [i \in DOMAIN reviews |->
        IF IsOurs(reviews[i]) THEN DismissReview(reviews[i]) ELSE reviews[i]]

Dismissed(reviews) ==
    Cardinality({i \in DOMAIN reviews : reviews[i].state = "DISMISSED"})

\* the state GitHub gives a review created with the event
StateOfEvent(event) ==
    IF event = "REQUEST_CHANGES" THEN "CHANGES_REQUESTED" ELSE "COMMENTED"

\* handlePullRequest up to the call of orchestrateReview: actions that are
\* not reviewable and draft pull requests are skipped
HandlePullRequest(d, action, draft, head) ==
    /\ phase = "serving"
    /\ deliveries[d].pc = "idle"
    /\ \A e \in DeliveryIds : e < d => deliveries[e].pc # "idle"
    /\ deliveries' = [deliveries EXCEPT ![d] =
          IF action \notin REVIEWABLE_ACTIONS \/ draft
          THEN [NoDelivery EXCEPT !.pc = "skipped", !.action = action, !.head = head]
          ELSE [NoDelivery EXCEPT !.pc = "started", !.action = action, !.head = head]]
    /\ UNCHANGED gateVars
    /\ UNCHANGED <<flagLog, heldPosts, prReviews>>
    /\ UNCHANGED notGateHookVars

\* steps 1-2: the repository's config is loaded; on synchronize with
\* review.dismissOnUpdate the earlier reviews of the bot are dismissed.  A
\* failing listReviews makes orchestrateReview throw.
LoadAndDismiss(d, enabled, dismissOnUpdate, listOk) ==
    /\ deliveries[d].pc = "started"
    /\ IF ~enabled
       THEN /\ deliveries' = [deliveries EXCEPT ![d].pc = "skipped"]
            /\ UNCHANGED prReviews
       ELSE IF deliveries[d].action = "synchronize" /\ dismissOnUpdate
       THEN IF listOk
            THEN /\ prReviews' = dismissPreviousReviews(prReviews)
                 /\ deliveries' = [deliveries EXCEPT
                       ![d].pc = "loaded",
                       ![d].dismissed = Dismissed(dismissPreviousReviews(prReviews))
                                        - Dismissed(prReviews)]
            ELSE /\ deliveries' = [deliveries EXCEPT ![d].pc = "failed"]
                 /\ UNCHANGED prReviews
       ELSE /\ deliveries' = [deliveries EXCEPT ![d].pc = "loaded"]
            /\ UNCHANGED prReviews
    /\ UNCHANGED gateVars
    /\ UNCHANGED <<flagLog, heldPosts>>
    /\ UNCHANGED notGateHookVars

\* steps 3-12: the files are fetched and reviewed and the result is built; a
\* pull request without reviewable files returns
BuildResult(d, hasFiles, hasErrors) ==
    /\ deliveries[d].pc = "loaded"
    /\ deliveries' = [deliveries EXCEPT
          ![d].pc = IF hasFiles THEN "built" ELSE "skipped",
          ![d].event = IF ~hasFiles THEN "none"
                       ELSE IF hasErrors THEN "REQUEST_CHANGES" ELSE "COMMENT"]
    /\ UNCHANGED gateVars
    /\ UNCHANGED <<flagLog, heldPosts, prReviews>>
    /\ UNCHANGED notGateHookVars

\* step 13: const gated = await getFeatureFlag("review_gate")
ReadGate(d) ==
    /\ deliveries[d].pc = "built"
    /\ deliveries' = [deliveries EXCEPT
          ![d].pc = "gateRead",
          ![d].gated = getFeatureFlag("review_gate").value]
    /\ UNCHANGED gateVars
    /\ UNCHANGED <<flagLog, heldPosts, prReviews>>
    /\ UNCHANGED notGateHookVars

\* steps 13-14: the review is queued with insertPendingReview when the gate
\* was on, and posted with postReview otherwise
HoldOrPost(d, githubOk) ==
    /\ deliveries[d].pc = "gateRead"
    /\ IF HeldByGate(deliveries[d].gated)
       THEN /\ pending' = Append(pending, [run |-> d, status |-> "pending",
                                           created_at |-> now, resolved_at |-> 0])
            /\ now' = now + 1
            /\ deliveries' = [deliveries EXCEPT ![d].pc = "held"]
            /\ UNCHANGED prReviews
       ELSE /\ IF githubOk
               THEN /\ prReviews' = Append(prReviews,
                          [by |-> d, head |-> deliveries[d].head, tagged |-> TRUE,
                           state |-> StateOfEvent(deliveries[d].event)])
                    /\ deliveries' = [deliveries EXCEPT ![d].pc = "posted"]
               ELSE /\ deliveries' = [deliveries EXCEPT ![d].pc = "failed"]
                    /\ UNCHANGED prReviews
            /\ UNCHANGED <<pending, now>>
    /\ UNCHANGED <<phase, pool, dbUp, flags, flagSetByCaller, runs, calls>>
    /\ UNCHANGED <<flagLog, heldPosts>>
    /\ UNCHANGED notGateHookVars

InitWebhook ==
    /\ phase = "serving"
    /\ pool = "open"
    /\ dbUp = TRUE
    /\ flags = SeedFlags(NoFlags)
    /\ flagSetByCaller = {}
    /\ pending = <<>>
    /\ now = 1
    /\ runs = [r \in RunIds |-> NoRun]
    /\ calls = [c \in CallIds |-> NoCall]
    /\ ChunkerIdle
    /\ FeedbackIdle
    /\ MoreIdle

NextWebhook ==
    \/ \E enabled \in BOOLEAN : SetFeatureFlag("review_gate", enabled)
    \/ \E d \in DeliveryIds, action \in WebhookActions, draft \in BOOLEAN,
          head \in HeadCommits : HandlePullRequest(d, action, draft, head)
    \/ \E d \in DeliveryIds, enabled \in BOOLEAN, dismissOnUpdate \in BOOLEAN,
          listOk \in BOOLEAN : LoadAndDismiss(d, enabled, dismissOnUpdate, listOk)
    \/ \E d \in DeliveryIds, hasFiles \in BOOLEAN, hasErrors \in BOOLEAN :
          BuildResult(d, hasFiles, hasErrors)
    \/ \E d \in DeliveryIds : ReadGate(d)
    \/ \E d \in DeliveryIds, githubOk \in BOOLEAN : HoldOrPost(d, githubOk)

SpecWebhook == InitWebhook /\ [][NextWebhook]_vars

(***************************************************************************)
(* Webhook claims                                                          *)
(***************************************************************************)
ReviewsOfHead(head) == {i \in DOMAIN prReviews : prReviews[i].head = head}

RowsOfHead(head) == {i \in DOMAIN pending : deliveries[pending[i].run].head = head}

\* C29: for one head commit of the pull request at most one review is
\* posted and at most one pending review is queued, also when the webhook
\* is delivered more than once or two deliveries are processed together.
C29_OneReviewPerHeadCommit ==
    \A head \in HeadCommits :
        /\ Cardinality(ReviewsOfHead(head)) <= 1
        /\ Cardinality(RowsOfHead(head)) <= 1

\* C30: a run whose review is held as pending has dismissed none of the
\* reviews posted before it, so the pull request keeps its last posted
\* review while the gate is on.
C30_HeldRunDismissesNothing ==
    \A d \in DeliveryIds : deliveries[d].pc = "held" => deliveries[d].dismissed = 0

(***************************************************************************)
(* The two ways a review reaches the pull request: orchestrateReview posts *)
(* it (steps 14-16), or it is held by the gate and the approve route of    *)
(* the dashboard posts it.  PostgreSQL is up and the flags are seeded.     *)
(***************************************************************************)
InitRelease == InitWebhook

NextRelease ==
    \/ \E enabled \in BOOLEAN : SetFeatureFlag("review_gate", enabled)
    \/ \E r \in RunIds, producesResult \in BOOLEAN, learning \in BOOLEAN :
          BuildReview(r, producesResult, learning)
    \/ \E r \in RunIds : CheckGate(r)
    \/ \E r \in RunIds : HoldReview(r)
    \/ \E r \in RunIds, githubOk \in BOOLEAN : PostReview(r, githubOk)
    \/ \E r \in RunIds : FinishReview(r)
    \/ \E c \in CallIds, id \in RowIds, resolution \in Resolutions :
          ResolveCall(c, id, resolution)
    \/ \E c \in CallIds : ResolveUpdate(c)
    \/ \E c \in CallIds, githubOk \in BOOLEAN : AnswerRoute(c, githubOk)

SpecRelease == InitRelease /\ [][NextRelease]_vars

(***************************************************************************)
(* Release claims                                                          *)
(***************************************************************************)
\* the runs whose review an approve request has posted
ReleasedRuns == {pending[calls[c].id].run : c \in {c \in CallIds : heldPosts[c] = "posted"}}

\* the runs that posted their own review and returned
DirectRuns == {r \in RunIds : runs[r].pc = "done" /\ runs[r].posted}

\* C31: a review released through the gate has the recorded effects of a
\* review posted directly: a review metrics row, and with learning enabled
\* its findings stored as interactions.
C31_ReleasedReviewIsRecorded ==
    \A r \in ReleasedRuns : runs[r].metrics /\ (runs[r].learning => runs[r].stored)

(***************************************************************************)
(* The feedback recorder with both stores configured and answering: every  *)
(* write of storeReviewInteractions and updateApproval succeeds.  An       *)
(* interaction id is the randomUUID drawn by storeReviewInteractions, so a *)
(* webhook names it only once the interaction has been stored.             *)
(***************************************************************************)
NamesStoredInteraction(event) ==
    FeedbackCallOf(event).call =>
        /\ vectorStore[FeedbackCallOf(event).id] # "absent"
        /\ graphStore[FeedbackCallOf(event).id] # "absent"

InitStoresUp == InitFeedback /\ learningEnabled = TRUE

NextStoresUp ==
    \/ \E k \in ReviewIds, inline \in BOOLEAN : PostReviewWithFinding(k, inline)
    \/ \E k \in ReviewIds : StoreReviewInteractions(k, TRUE, TRUE)
    \/ \E s \in SignalIds : \E event \in FeedbackEvents :
          NamesStoredInteraction(event) /\ HandleReviewFeedback(s, event)
    \/ \E s \in SignalIds : VectorUpdateApproval(s, TRUE)
    \/ \E s \in SignalIds : GraphUpdateApproval(s, TRUE)
    \/ \E s \in SignalIds, insertOk \in BOOLEAN : CollectFeedbackMetrics(s, insertOk)

SpecStoresUp == InitStoresUp /\ [][NextStoresUp]_vars

\* the signals that are inside recordFeedback with a store write outstanding
InFlight(i) ==
    {s \in SignalIds : signals[s].pc = "recording" /\ signals[s].id = i
                       /\ ~(signals[s].vectorDone /\ signals[s].graphDone)}

\* the signals whose two updateApproval calls have returned
Processed(i) ==
    {s \in SignalIds : signals[s].id = i /\ signals[s].vectorDone /\ signals[s].graphDone}

\* C32: once every in-flight feedback signal of an interaction has been
\* processed with both stores available, the vector store and the graph
\* store hold the same approval value for it, whatever the interleaving.
C32_StoresAgreeOnApproval ==
    \A i \in InteractionIds :
        (InFlight(i) = {} /\ Processed(i) # {}) => vectorStore[i] = graphStore[i]

(***************************************************************************)
(* Recall over stores that disagree on one interaction: its approval was   *)
(* written to Neo4j and not to Qdrant (updateApproval logs a failed write  *)
(* and goes on), so Qdrant still holds it with approved null.              *)
(***************************************************************************)
HalfResolvedPoints ==
    << Pattern("a.ts", <<"null check">>, "null"),
       Pattern("b.ts", <<"rename it">>, "true") >>

HalfResolvedInteractions ==
    << Pattern("a.ts", <<"null check">>, "true"),
       Pattern("c.ts", <<"rename it">>, "false") >>

HalfResolvedStates ==
    { [enabled |-> TRUE, client |-> c, driver |-> d,
       points |-> HalfResolvedPoints, interactions |-> HalfResolvedInteractions]
      : c \in BOOLEAN, d \in BOOLEAN }

InitHalfResolved ==
    /\ knowledge \in HalfResolvedStates
    /\ recallFiles \in RecallFileLists
    /\ recallPc = NotRecalling
    /\ semanticResults = <<>>
    /\ conceptResults = <<>>
    /\ fileHistoryResults = <<>>
    /\ learningCtx = NoContext
    /\ learningPrompt = NoPrompt
    /\ reviewPc = [NotReviewing EXCEPT !.at = "start"]
    /\ reviewError = "none"
    /\ storeWrites = NoWrites
    /\ ChunkerIdle
    /\ GateIdle
    /\ FeedbackIdle
    /\ FilterIdle
    /\ ConceptIdle
    /\ ToolLoopIdle
    /\ LaterIdle

SpecHalfResolved == InitHalfResolved /\ [][NextRecall]_vars

\* what the three stages returned
StageResults == semanticResults \o conceptResults \o fileHistoryResults

IsResolved(p) == p.approved \in ResolvedApprovals

\* C33: when retrieveLearningContext returns, every resolved pattern some
\* stage returned has its (filePath, comment prefix) key in the approved or
\* rejected list, also when an unresolved pattern with that key came from an
\* earlier stage (the lists being short of their cap of 5).
C33_ResolvedPatternSurvivesDedup ==
    [][ (recallPc.at = "history" /\ recallPc'.at = "done"
         /\ learningCtx'.found.approved <= PatternCap
         /\ learningCtx'.found.rejected <= PatternCap)
        => \A i \in DOMAIN StageResults :
              IsResolved(StageResults[i]) =>
                  \E q \in Range(learningCtx'.approvedPatterns \o learningCtx'.rejectedPatterns) :
                      KeyPair(q) = KeyPair(StageResults[i]) ]_vars

(***************************************************************************)
(* src/review/orchestrator.ts: deduplicateFindings, applied at step 7 to   *)
(* [...ruleComments, ...llmComments].  A finding keeps the fields the      *)
(* function reads, and its source.                                         *)
(***************************************************************************)
MaxDedupFindings == 3

Severities == {"info", "warning", "error"}

FindingLines == {1, 2}

\* const key = `${f.path}:${f.line}`
FindingKey(f) == <<f.path, f.line>>

\* seen.set(key, f): a key already in the Map keeps its place
MapSet(seen, f) ==
    IF \E i \in DOMAIN seen : FindingKey(seen[i]) = FindingKey(f)
    THEN [i \in DOMAIN seen |-> IF FindingKey(seen[i]) = FindingKey(f) THEN f ELSE seen[i]]
    ELSE Append(seen, f)

\* if (!existing || severityRank(f.severity) > severityRank(existing.severity))
Replaces(seen, f) ==
    \A i \in DOMAIN seen :
        FindingKey(seen[i]) = FindingKey(f)
            => severityRank(f.severity) > severityRank(seen[i].severity)

RECURSIVE DedupFindingsFrom(_, _)
DedupFindingsFrom(findings, seen) ==
    IF findings = <<>> THEN seen
    ELSE DedupFindingsFrom(Tail(findings),
                           IF Replaces(seen, Head(findings))
                           THEN MapSet(seen, Head(findings)) ELSE seen)

\* Array.from(seen.values())
deduplicateFindings(findings) == DedupFindingsFrom(findings, <<>>)

FindingsOf(source) ==
    [path : {"a.ts"}, line : FindingLines, severity : Severities, source : {source}]

FindingInputs ==
    UNION { { [rule |-> r, llm |-> l] :
                r \in [1..nm[1] -> FindingsOf("rule")],
                l \in [1..nm[2] -> FindingsOf("llm")] } :
            nm \in { c \in (0..MaxDedupFindings) \X (0..MaxDedupFindings) :
                        c[1] + c[2] <= MaxDedupFindings } }

\* step 7: const allFindings = deduplicateFindings([...ruleComments, ...llmComments])
DeduplicateFindingsCall ==
    /\ ~dedupOut.done
    /\ dedupOut' = [done |-> TRUE,
                    findings |-> deduplicateFindings(dedupIn.rule \o dedupIn.llm)]
    /\ UNCHANGED dedupIn
    /\ UNCHANGED notDedupVars

InitDedup ==
    /\ dedupIn \in FindingInputs
    /\ dedupOut = NotDeduped
    /\ EarlierIdle
    /\ ReviewerIdle
    /\ ParserIdle
    /\ SyncIdle
    /\ HookIdle
    /\ GuardIdle
    /\ ReplyIdle
    /\ ToolCallIdle
    /\ FlightIdle

NextDedup == DeduplicateFindingsCall

SpecDedup == InitDedup /\ [][NextDedup]_vars

(***************************************************************************)
(* Dedup claims                                                            *)
(***************************************************************************)
AllFindingsIn == dedupIn.rule \o dedupIn.llm

FindingsAt(key) == {f \in Range(AllFindingsIn) : FindingKey(f) = key}

HighestAt(key) ==
    {f \in FindingsAt(key) :
        \A g \in FindingsAt(key) : severityRank(g.severity) <= severityRank(f.severity)}

\* one finding per (path, line) of the input, of the highest severity there
OnePerLocationOfHighestSeverity ==
    dedupOut.done =>
        /\ \A i, j \in DOMAIN dedupOut.findings :
              FindingKey(dedupOut.findings[i]) = FindingKey(dedupOut.findings[j]) => i = j
        /\ {FindingKey(f) : f \in Range(dedupOut.findings)}
              = {FindingKey(f) : f \in Range(AllFindingsIn)}
        /\ \A f \in Range(dedupOut.findings) : f \in HighestAt(FindingKey(f))

\* C34: deduplicateFindings keeps exactly one finding per (path, line), the
\* one of the highest severity there, and when a rule finding and an LLM
\* finding there both have that severity, the LLM finding.
C34_HighestSeverityThenLlm ==
    /\ OnePerLocationOfHighestSeverity
    /\ dedupOut.done =>
          \A f \in Range(dedupOut.findings) :
              (\E g \in HighestAt(FindingKey(f)) : g.source = "llm") => f.source = "llm"

(***************************************************************************)
(* Truncation claims (SpecChunker)                                         *)
(***************************************************************************)
\* C35: truncation drops only trailing lines: the lines retained in an
\* emitted file, hunk after hunk, are a prefix of the lines of the input
\* file of that name, so no line after a cut line is retained.
C35_RetainedLinesAreAPrefix ==
    chunked =>
        \A p \in DOMAIN OutFiles :
            IsPrefix(AllLines(OutFiles[p]), AllLines(files[InputOf(OutFiles[p])]))

(***************************************************************************)
(* Permissive parsing claims (SpecParser)                                  *)
(***************************************************************************)
\* the line is a hunk header, or is prefixed with "+", "-" or a space
Recognised(line) ==
    \/ HunkMatch(line).matched
    \/ StartsWith(line, <<"+">>)
    \/ StartsWith(line, <<"-">>)
    \/ StartsWith(line, <<" ">>)

\* the lines of the patch that stand inside a hunk
InsideAHunk ==
    {i \in DOMAIN patchIn.lines :
        /\ ~HunkMatch(patchIn.lines[i]).matched
        /\ \E h \in 1..(i - 1) : HunkMatch(patchIn.lines[h]).matched}

PushedLines == Flatten([h \in DOMAIN parsedOut.file.hunks |-> parsedOut.file.hunks[h].lines])

\* C36: parsePatch returns for every patch, and the lines of its hunks are
\* the recognised lines inside a hunk: a line that is neither a hunk header
\* nor prefixed with "+", "-" or a space adds no line and moves no line
\* number.
C36_UnrecognisedLinesAreSkipped ==
    parsedOut.done =>
        Len(PushedLines)
            = Cardinality({i \in InsideAHunk : Recognised(patchIn.lines[i])})

(***************************************************************************)
(* src/llm/reviewer.ts: reviewFileChunk from the parsed response on, and   *)
(* the flatMap of reviewWithLLM over the analyses.  A comment keeps its    *)
(* path and line.                                                          *)
(***************************************************************************)
MaxReplyComments == 2

\* the filenames of the pull request, and a path the model made up
ChunkFilenames == {"a.ts", "b.ts", "c.ts"}

ReplyPaths == ChunkFilenames \cup {"x.ts"}

\* Variant filter that lets every path through
AnyPath(validFiles, path) == TRUE

\* validFiles.has(c.path)
ValidPath(validFiles, path) == path \in validFiles

RECURSIVE FilterComments(_, _)
\* parsed.comments.filter((c) => validFiles.has(c.path))
FilterComments(comments, validFiles) ==
    IF comments = <<>> THEN <<>>
    ELSE (IF ValidPath(validFiles, Head(comments).path) THEN <<Head(comments)>> ELSE <<>>)
         \o FilterComments(Tail(comments), validFiles)

RECURSIVE CommentsOnPath(_, _)
\* comments.filter((c) => c.path === f.filename)
CommentsOnPath(comments, filename) ==
    IF comments = <<>> THEN <<>>
    ELSE (IF Head(comments).path = filename THEN <<Head(comments)>> ELSE <<>>)
         \o CommentsOnPath(Tail(comments), filename)

\* reviewFileChunk after the response: no comments when the text does not
\* parse; one analysis with the filtered comments for a chunk of one file;
\* for more files the filtered comments split by file
reviewFileChunk(reply) ==
    LET comments == FilterComments(reply.comments, Range(reply.files)) IN
    IF ~reply.parsed
    THEN [j \in DOMAIN reply.files |-> [filename |-> reply.files[j], comments |-> <<>>]]
    ELSE IF Len(reply.files) = 1
    THEN <<[filename |-> reply.files[1], comments |-> comments]>>
    ELSE [j \in DOMAIN reply.files |->
             [filename |-> reply.files[j],
              comments |-> CommentsOnPath(comments, reply.files[j])]]

ReplyComments == [path : ReplyPaths, line : {1, 2}]

ChunkFileLists ==
    {<<f>> : f \in ChunkFilenames}
    \cup {fg \in ChunkFilenames \X ChunkFilenames : fg[1] # fg[2]}

ChunkReplies ==
    [files : ChunkFileLists, parsed : BOOLEAN,
     comments : UNION {[1..n -> ReplyComments] : n \in 0..MaxReplyComments}]

ReviewFileChunkReturns ==
    /\ ~chunkFindings.done
    /\ chunkFindings' = [done |-> TRUE, analyses |-> reviewFileChunk(chunkReply)]
    /\ UNCHANGED chunkReply
    /\ UNCHANGED notReplyVars

InitReply ==
    /\ chunkReply \in ChunkReplies
    /\ chunkFindings = NotAnalysed
    /\ EarlierIdle
    /\ ReviewerIdle
    /\ ParserIdle
    /\ SyncIdle
    /\ HookIdle
    /\ DedupIdle
    /\ GuardIdle
    /\ ToolCallIdle
    /\ FlightIdle

NextReply == ReviewFileChunkReturns

SpecReply == InitReply /\ [][NextReply]_vars

(***************************************************************************)
(* Reply claims                                                            *)
(***************************************************************************)
\* fileAnalyses.flatMap((a) => a.comments) of reviewWithLLM
Phase1Comments ==
    Flatten([j \in DOMAIN chunkFindings.analyses |-> chunkFindings.analyses[j].comments])

\* C37: every finding returned for a chunk has the filename of a file sent
\* in the chunk as its path and is a comment of the response; a comment the
\* model reports on any other path is in no analysis, and a comment on a
\* file of the chunk is returned.
C37_FindingsOnlyOnSentFiles ==
    chunkFindings.done =>
        /\ \A f \in Range(Phase1Comments) :
              f.path \in Range(chunkReply.files) /\ f \in Range(chunkReply.comments)
        /\ \A j \in DOMAIN chunkFindings.analyses :
              \A f \in Range(chunkFindings.analyses[j].comments) :
                  f.path \in Range(chunkReply.files)
        /\ chunkReply.parsed =>
              \A c \in Range(chunkReply.comments) :
                  c.path \in Range(chunkReply.files) => c \in Range(Phase1Comments)

\* a chunk of one file whose response names that file and a path that was
\* not sent: only the first comment is returned
C37_Witness ==
    /\ chunkFindings.done
    /\ chunkReply.files = <<"a.ts">>
    /\ chunkReply.parsed
    /\ chunkReply.comments = <<[path |-> "x.ts", line |-> 1], [path |-> "a.ts", line |-> 2]>>
    /\ Phase1Comments = <<[path |-> "a.ts", line |-> 2]>>

\* a chunk of two files whose response names a file of another chunk
C37_WitnessOtherChunk ==
    /\ chunkFindings.done
    /\ chunkReply.files = <<"a.ts", "b.ts">>
    /\ chunkReply.parsed
    /\ chunkReply.comments = <<[path |-> "b.ts", line |-> 1], [path |-> "c.ts", line |-> 1]>>
    /\ chunkFindings.analyses[1].comments = <<>>
    /\ chunkFindings.analyses[2].comments = <<[path |-> "b.ts", line |-> 1]>>

(***************************************************************************)
(* src/llm/tools.ts: executeToolCall(name, input, repo).  The input is an  *)
(* object or null (reading a property of null throws); its limit is        *)
(* absent, a number or a string that is no number; the lookup returns      *)
(* rows, returns none, or rejects (session() and session.close() are       *)
(* outside the lookups' own try).                                          *)
(***************************************************************************)
MAX_RESULTS == 10

\* the limit a lookup gets when the input names none
DefaultLimit == 5

ToolNames == {"search_past_reviews", "get_file_history", "get_concept_stats"}

LimitInputs == {"undefined", "3", "50", "abc"}

\* Number(input.limit) || 5
NumberOrDefault(limit) ==
    IF limit = "3" THEN 3 ELSE IF limit = "50" THEN 50 ELSE DefaultLimit

\* Math.min(Number(input.limit) || 5, MAX_RESULTS)
LimitOf(limit) == MinOf(NumberOrDefault(limit), MAX_RESULTS)

Returns(value, limit) == [done |-> TRUE, threw |-> FALSE, value |-> value, limit |-> limit]

Thrown(limit) == [done |-> TRUE, threw |-> TRUE, value |-> "none", limit |-> limit]

ToolFailed == "Tool execution failed, proceed without this data"

UnknownTool == "Unknown tool"

CallNames == ToolNames \cup {"run_shell"}

LookupOutcomes == {"rows", "empty", "storeDown", "rejects"}

ToolCalls ==
    [name : CallNames, input : {"object", "null"}, limit : LimitInputs, lookup : LookupOutcomes]

\* what the awaited lookup hands back: searchSimilar, getFileHistory and
\* getConceptApprovalRates catch a failing query themselves and return []
LookupResult(lookup, limit) ==
    CASE lookup = "rejects" -> Thrown(limit)
      [] lookup = "rows" -> Returns("rows", limit)
      [] OTHER -> Returns("[]", limit)

\* the switch inside the try block
SwitchOnName(call) ==
    CASE call.name \in {"search_past_reviews", "get_file_history"} ->
            IF call.input = "null"
            THEN Thrown(0)
            ELSE LookupResult(call.lookup, LimitOf(call.limit))
      [] call.name = "get_concept_stats" -> LookupResult(call.lookup, 0)
      [] OTHER -> Returns(UnknownTool, 0)

Rethrow(outcome) == outcome

\* the catch block: whatever was thrown becomes the fixed string
CatchAll(outcome) ==
    IF outcome.threw THEN Returns(ToolFailed, outcome.limit) ELSE outcome

ExecuteToolCallReturns(call) == CatchAll(SwitchOnName(call))

\* the model asks for a lookup
RequestTool(call) ==
    /\ toolCall = NoToolCall
    /\ toolCall' = call
    /\ UNCHANGED <<notCallVars, toolReturn>>

ExecuteToolCall ==
    /\ toolCall # NoToolCall
    /\ ~toolReturn.done
    /\ toolReturn' = ExecuteToolCallReturns(toolCall)
    /\ UNCHANGED <<notCallVars, toolCall>>

\* the result is appended to the conversation and the loop goes on
AppendToolResult ==
    /\ toolReturn.done
    /\ ~toolReturn.threw
    /\ toolCall' = NoToolCall
    /\ toolReturn' = NotCalled
    /\ UNCHANGED notCallVars

InitToolCall ==
    /\ EarlierIdle
    /\ ReviewerIdle
    /\ ParserIdle
    /\ SyncIdle
    /\ HookIdle
    /\ LastIdle

NextToolCall ==
    \/ \E call \in ToolCalls : RequestTool(call)
    \/ ExecuteToolCall
    \/ AppendToolResult

SpecToolCall == InitToolCall /\ [][NextToolCall]_vars


\* C38: executeToolCall never throws: a call whose lookup throws returns
\* the fixed "Tool execution failed, proceed without this data" string, and
\* a call of an unknown tool returns the "Unknown tool" string.
C38_ExecuteToolCallNeverThrows ==
    toolReturn.done =>
        /\ ~toolReturn.threw
        /\ (toolCall.name \notin ToolNames => toolReturn.value = UnknownTool)
        /\ (toolCall.name \in ToolNames /\ toolCall.input = "object"
                /\ toolCall.lookup = "rejects"
              => toolReturn.value = ToolFailed)

C38_Witness ==
    /\ toolReturn.done
    /\ toolCall.name = "get_file_history"
    /\ toolCall.input = "object"
    /\ toolCall.lookup = "rejects"
    /\ toolReturn.value = ToolFailed

C38_WitnessUnknown ==
    /\ toolReturn.done
    /\ toolCall.name = "run_shell"
    /\ toolCall.input = "null"
    /\ toolReturn.value = UnknownTool

(***************************************************************************)
(* src/webhooks (part_005): isDuplicate and the two comment handlers.      *)
(* Time is counted in units of thirty seconds; a setTimeout callback runs  *)
(* at its due time or later.                                               *)
(***************************************************************************)
\* DEDUP_TTL_MS = 60_000
DEDUP_TTL == 2

MaxClock == 3

MaxGuardDeliveries == 3

CommentIds == {101, 102}

\* a human's new comment on a pull request, and one payload per filter that
\* stops short of the guard
HumanComment == [action |-> "created", onPull |-> TRUE, userType |-> "User", body |-> "long"]

CommentPayloads ==
    {HumanComment,
     [HumanComment EXCEPT !.action = "edited"],
     [HumanComment EXCEPT !.onPull = FALSE],
     [HumanComment EXCEPT !.userType = "Bot"],
     [HumanComment EXCEPT !.userType = "none"],
     [HumanComment EXCEPT !.body = "tagged"],
     [HumanComment EXCEPT !.body = "short"]}

NeverDuplicate(commentId) == FALSE

\* _recentlyProcessed.has(commentId)
IsDuplicate(commentId) == commentId \in recentlyProcessed

\* the filters both handlers apply before the dedup guard
ReachesGuard(action, userType, body) ==
    /\ action = "created"
    /\ userType = "User"
    /\ body = "long"

\* from isDuplicate(comment.id) to the end of a handler
GuardAndStore(kind, commentId, replies) ==
    IF IsDuplicate(commentId)
    THEN /\ commentLog' = Append(commentLog,
                [id |-> commentId, kind |-> kind, at |-> clock, duplicate |-> TRUE,
                 stored |-> FALSE, replied |-> FALSE])
         /\ UNCHANGED <<recentlyProcessed, dedupTimers>>
    ELSE /\ recentlyProcessed' = recentlyProcessed \cup {commentId}
         /\ dedupTimers' = dedupTimers \cup {[id |-> commentId, due |-> clock + DEDUP_TTL]}
         /\ commentLog' = Append(commentLog,
                [id |-> commentId, kind |-> kind, at |-> clock, duplicate |-> FALSE,
                 stored |-> learningEnabled, replied |-> learningEnabled /\ replies])

HandleIssueComment(commentId, action, onPull, userType, body, replies) ==
    /\ Len(commentLog) < MaxGuardDeliveries
    /\ IF ReachesGuard(action, userType, body) /\ onPull
       THEN GuardAndStore("issue", commentId, replies)
       ELSE UNCHANGED <<recentlyProcessed, dedupTimers, commentLog>>
    /\ UNCHANGED <<notGuardVars, clock>>

HandleInlineComment(commentId, action, userType, body) ==
    /\ Len(commentLog) < MaxGuardDeliveries
    /\ IF ReachesGuard(action, userType, body)
       THEN GuardAndStore("inline", commentId, FALSE)
       ELSE UNCHANGED <<recentlyProcessed, dedupTimers, commentLog>>
    /\ UNCHANGED <<notGuardVars, clock>>

\* setTimeout(() => _recentlyProcessed.delete(commentId), DEDUP_TTL_MS)
DedupTimerFires(timer) ==
    /\ timer \in dedupTimers
    /\ timer.due <= clock
    /\ recentlyProcessed' = recentlyProcessed \ {timer.id}
    /\ dedupTimers' = dedupTimers \ {timer}
    /\ UNCHANGED <<notGuardVars, clock, commentLog>>

TimePasses ==
    /\ clock < MaxClock
    /\ clock' = clock + 1
    /\ UNCHANGED <<notGuardVars, recentlyProcessed, dedupTimers, commentLog>>

InitGuard ==
    /\ ChunkerIdle
    /\ GateIdle
    /\ learningEnabled \in BOOLEAN
    /\ NothingStored
    /\ SecondIdle
    /\ LaterIdle

NextGuard ==
    \/ \E commentId \in CommentIds, payload \in CommentPayloads, replies \in BOOLEAN :
            HandleIssueComment(commentId, payload.action, payload.onPull,
                               payload.userType, payload.body, replies)
    \/ \E commentId \in CommentIds, payload \in CommentPayloads :
            HandleInlineComment(commentId, payload.action, payload.userType, payload.body)
    \/ \E commentId \in CommentIds, due \in 0..(MaxClock + DEDUP_TTL) :
            DedupTimerFires([id |-> commentId, due |-> due])
    \/ TimePasses

SpecGuard == InitGuard /\ [][NextGuard]_vars

\* the deliveries of one comment id that were processed
ProcessedAt(commentId) ==
    {i \in DOMAIN commentLog : commentLog[i].id = commentId /\ ~commentLog[i].duplicate}

\* C39: a comment id is processed at most once within any 60 seconds: of
\* two deliveries of one id, the later one is ignored unless it comes 60
\* seconds or more after the one that was processed, and an id is in the
\* set exactly while the timer of its last processing is pending.
C39_ProcessedOncePerWindow ==
    /\ \A commentId \in CommentIds : \A i, j \in ProcessedAt(commentId) :
          i < j => commentLog[j].at >= commentLog[i].at + DEDUP_TTL
    /\ \A i, j \in DOMAIN commentLog :
          /\ i < j
          /\ commentLog[i].id = commentLog[j].id
          /\ ~commentLog[i].duplicate
          /\ commentLog[j].at < commentLog[i].at + DEDUP_TTL
          => /\ commentLog[j].duplicate
             /\ ~commentLog[j].stored
    /\ \A commentId \in CommentIds :
          commentId \in recentlyProcessed
              <=> \E timer \in dedupTimers : timer.id = commentId
    /\ \A timer \in dedupTimers : \E i \in ProcessedAt(timer.id) :
          timer.due = commentLog[i].at + DEDUP_TTL

\* a redelivery inside the window was ignored, and the id was processed
\* again after its entry had expired
C39_Witness ==
    \E i, j, k \in DOMAIN commentLog :
        /\ i < j /\ j < k
        /\ commentLog[i].id = commentLog[j].id
        /\ commentLog[j].id = commentLog[k].id
        /\ ~commentLog[i].duplicate /\ commentLog[i].stored
        /\ commentLog[j].duplicate
        /\ commentLog[j].at < commentLog[i].at + DEDUP_TTL
        /\ ~commentLog[k].duplicate /\ commentLog[k].stored

(***************************************************************************)
(* src/learning/sync.ts: syncRepoHistory and _progress, called without     *)
(* await by POST /api/sync (src/dashboard/routes.ts).  A call runs from    *)
(* one await to the next in one step.                                      *)
(***************************************************************************)
\* the pull requests octokit.pulls.list comes to, MAX_PRS at most
MaxListedPRs == 2

SyncRepos == {"o/r", "o"}

AlreadyInProgress == "Sync already in progress"

NeverRunning == FALSE

\* _progress.status === "running"
SyncIsRunning == progress.status = "running"

\* repo.split("/") gives an owner and a name
ValidRepo(repo) == repo = "o/r"

Failed(error) == [progress EXCEPT !.status = "error", !.error = error]

\* POST /api/sync: the flag is read, then syncRepoHistory is called and runs
\* to its first await
PostSync(c, enabled, repo) ==
    /\ syncCall[c] = NoSyncCall
    /\ \A earlier \in SyncCallIds : earlier < c => syncCall[earlier] # NoSyncCall
    /\ IF ~enabled
       THEN /\ syncCall' = [syncCall EXCEPT ![c] =
                    [pc |-> "notCalled", response |-> "403", threw |-> "none"]]
            /\ UNCHANGED progress
       ELSE IF SyncIsRunning
       THEN /\ syncCall' = [syncCall EXCEPT ![c] =
                    [pc |-> "rejected", response |-> "ok", threw |-> AlreadyInProgress]]
            /\ UNCHANGED progress
       ELSE LET started == [IdleProgress EXCEPT !.status = "running", !.repo = repo]
            IN  IF ~ValidRepo(repo)
                THEN /\ progress' = [started EXCEPT !.status = "error",
                                                    !.error = "Invalid repo format"]
                     /\ syncCall' = [syncCall EXCEPT ![c] =
                             [pc |-> "returned", response |-> "ok", threw |-> "none"]]
                ELSE /\ progress' = started
                     /\ syncCall' = [syncCall EXCEPT ![c] =
                             [pc |-> "getOctokit", response |-> "ok", threw |-> "none"]]
    /\ UNCHANGED notFlightVars

\* await getOctokit(installationId)
GetOctokit(c, ok) ==
    /\ syncCall[c].pc = "getOctokit"
    /\ IF ok
       THEN /\ syncCall' = [syncCall EXCEPT ![c].pc = "list"]
            /\ UNCHANGED progress
       ELSE /\ syncCall' = [syncCall EXCEPT ![c].pc = "returned"]
            /\ progress' = Failed("getOctokit")
    /\ UNCHANGED notFlightVars

\* the pages of octokit.pulls.list, then _progress.totalPRs = prs.length
ListPulls(c, ok, listed) ==
    /\ syncCall[c].pc = "list"
    /\ IF ok
       THEN /\ progress' = [progress EXCEPT
                    !.totalPRs = listed,
                    !.status = IF listed = 0 THEN "done" ELSE @]
            /\ syncCall' = [syncCall EXCEPT ![c].pc =
                    IF listed = 0 THEN "returned" ELSE "processPR"]
       ELSE /\ syncCall' = [syncCall EXCEPT ![c].pc = "returned"]
            /\ progress' = Failed("pulls.list")
    /\ UNCHANGED notFlightVars

\* await processPR(...), which catches what its requests throw, then
\* _progress.processedPRs++
ProcessPR(c, ingested) ==
    /\ syncCall[c].pc = "processPR"
    /\ progress' = [progress EXCEPT !.processedPRs = @ + 1,
                                    !.commentsIngested = @ + ingested]
    /\ syncCall' = [syncCall EXCEPT ![c].pc = "delay"]
    /\ UNCHANGED notFlightVars

\* await delay(RATE_LIMIT_DELAY_MS), then the next pull request or the end
AfterDelay(c) ==
    /\ syncCall[c].pc = "delay"
    /\ IF progress.processedPRs < progress.totalPRs
       THEN /\ syncCall' = [syncCall EXCEPT ![c].pc = "processPR"]
            /\ UNCHANGED progress
       ELSE /\ syncCall' = [syncCall EXCEPT ![c].pc = "returned"]
            /\ progress' = [progress EXCEPT !.status = "done"]
    /\ UNCHANGED notFlightVars

InitFlight ==
    /\ EarlierIdle
    /\ ReviewerIdle
    /\ ParserIdle
    /\ SyncIdle
    /\ HookIdle
    /\ LastIdle

SyncSteps(c) ==
    \/ \E ok \in BOOLEAN : GetOctokit(c, ok)
    \/ \E ok \in BOOLEAN, listed \in 0..MaxListedPRs : ListPulls(c, ok, listed)
    \/ \E ingested \in {0, 1} : ProcessPR(c, ingested)
    \/ AfterDelay(c)

NextFlight ==
    \/ \E c \in SyncCallIds, enabled \in BOOLEAN, repo \in SyncRepos : PostSync(c, enabled, repo)
    \/ \E c \in SyncCallIds : SyncSteps(c)

SpecFlight == InitFlight /\ [][NextFlight]_vars

\* every awaited request settles
SpecFlightFair == SpecFlight /\ \A c \in SyncCallIds : WF_vars(SyncSteps(c))

InFlightSync(c) == syncCall[c].pc \in {"getOctokit", "list", "processPR", "delay"}

SyncEnded(c) ==
    /\ syncCall[c].pc = "returned"
    /\ progress.status \in {"done", "error"}

\* a request made while a sync runs changes nothing of _progress and its
\* call throws
RejectedWhileRunning ==
    \A c \in SyncCallIds :
        /\ progress.status = "running"
        /\ syncCall[c] = NoSyncCall
        /\ syncCall'[c] # NoSyncCall
        => /\ progress' = progress
           /\ \/ syncCall'[c].response = "403"
              \/ /\ syncCall'[c].pc = "rejected"
                 /\ syncCall'[c].threw = AlreadyInProgress

OneSyncInFlight ==
    /\ \A c, d \in SyncCallIds : InFlightSync(c) /\ InFlightSync(d) => c = d
    /\ progress.status = "running" <=> \E c \in SyncCallIds : InFlightSync(c)
    /\ progress.processedPRs <= progress.totalPRs

\* C40: syncRepoHistory is single-flight: a call made while the status is
\* running throws "Sync already in progress" and leaves _progress as it
\* was, at most one sync is under way, processedPRs never exceeds totalPRs,
\* and every sync that started ends with the status done or error.
C40_SingleFlight ==
    /\ []OneSyncInFlight
    /\ [][RejectedWhileRunning]_vars
    /\ \A c \in SyncCallIds : InFlightSync(c) ~> SyncEnded(c)

\* one call was rejected while another had processed a pull request, and
\* that other one went on to the end of its list
C40_Witness ==
    \E c, d \in SyncCallIds :
        /\ c < d
        /\ syncCall[c].pc = "returned"
        /\ syncCall[d].pc = "rejected"
        /\ progress.status = "done"
        /\ progress.totalPRs = MaxListedPRs
        /\ progress.processedPRs = progress.totalPRs
====
